---------------------------- MODULE Spec2Model ----------------------------
(***************************************************************************)
(* A state-machine model of the CDCL SAT solver of evan-a-w/pror           *)
(* (src/src/cdcl.rs, src/src/sat.rs, src/src/tombstone.rs,                 *)
(* src/src/luby.rs).                                                       *)
(*                                                                         *)
(* Indices are 0-based as in the source: the clause table and the trail    *)
(* are functions over 0..n-1.  An absent Option<usize> is None (-1).       *)
(* The f64 activities are fixed-point integers: ScoreOne stands for 1.0    *)
(* of a VSIDS score and ClaOne for 1.0 of a clause activity.               *)
(***************************************************************************)
EXTENDS Integers, Sequences, FiniteSets, TLC

(***************************************************************************)
(* Bounds of the model.                                                    *)
(***************************************************************************)
NumVars == 3
MaxClauses == 4
MaxClauseLen == 2
MaxCalls == 3
CallVars == 2
MaxCallClauses == 2
MaxAssumptions == 2
MaxSteps == 4
ConflictClauses == 3
WatchClauses == 2
WatchClauseLen == 3
\* The width of a word (usize::BITS is 32 or 64), the greatest number N of
\* words of a block and the greatest element of a bitset.
WordBits == 2
MaxBlockWidth == 2
MaxBit == 4
\* The reduction period and the restart unit are fields of State that the
\* constructor sets to 2500 and 32 (cdcl.rs:1070, cdcl.rs:1058); the model
\* uses short periods so that reductions and restarts fall inside the runs
\* that the bounds above allow.
SimplifyEvery == 3
LubyUnit == 1
MaxLubyUnit == 8
MaxLubyTerms == 15
MaxStoreSteps == 16
MaxLearned == 3

(***************************************************************************)
(* Program constants.                                                      *)
(***************************************************************************)
\* vsids_decay_factor = 0.95 = VsidsDecayNum / VsidsDecayDen
VsidsDecayNum == 19
VsidsDecayDen == 20
\* cla_decay_factor = 0.75 = ClaDecayNum / ClaDecayDen
ClaDecayNum == 3
ClaDecayDen == 4
\* fixed-point 1.0 of the two activity scales
ScoreOne == 19 * 19 * 19
ClaOne == 3 * 3 * 3 * 3
None == -1

(***************************************************************************)
(* Literals (sat.rs)                                                       *)
(***************************************************************************)
LiteralNew(var, value) == IF value THEN var ELSE 0 - var
Variable(lit) == IF lit < 0 THEN 0 - lit ELSE lit
Value(lit) == lit > 0
Negate(lit) == 0 - lit

SetMin(S) == CHOOSE x \in S : \A y \in S : x <= y
SetMax(S) == CHOOSE x \in S : \A y \in S : x >= y
Len0(f) == Cardinality(DOMAIN f)
Append0(f, x) == [i \in 0..Len0(f) |-> IF i < Len0(f) THEN f[i] ELSE x]
Front0(f) == [i \in 0..(Len0(f) - 2) |-> f[i]]
Last0(f) == f[Len0(f) - 1]
EmptyFn == [i \in {} |-> 0]
\* the value of Body for v: v is computed once and named by Body's parameter
With(v, Body(_)) == Body(v)

(***************************************************************************)
(* Clauses (sat.rs; the fields num_units, from_conflict and score are the  *)
(* ones cdcl.rs reads and writes)                                          *)
(***************************************************************************)
ClauseCreate(variables, negatives) ==
    [variables |-> variables, negatives |-> negatives,
     num_units |-> 0, from_conflict |-> FALSE, score |-> 0]

NoClause == ClauseCreate({}, {})

\* Clause::copy: a new clause with the same two bitsets.
ClauseCopy(c) == ClauseCreate(c.variables, c.negatives)

\* Clause::iter_literals, as the set it enumerates in ascending variable order
IterLiterals(c) ==
    {LiteralNew(v, v \notin c.negatives) : v \in c.variables}

\* the first literal of a set in iteration (ascending variable) order
FirstLit(L) == CHOOSE l \in L : \A m \in L : Variable(l) <= Variable(m)

\* Clause::can_resolve(self, other, on_var)
CanResolve(self, other, on_var) ==
    /\ on_var \in self.variables
    /\ on_var \in other.negatives
    /\ ~((on_var \in self.negatives) # (on_var \in other.negatives))

\* Clause::resolve_exn(self, other, on_var): the clause left in self
\* (the caller checks CanResolve; the code panics when it is false)
ResolveExn(self, other, on_var) ==
    [self EXCEPT !.variables = (self.variables \cup other.variables) \ {on_var},
                 !.negatives = (self.negatives \cup other.negatives) \ {on_var}]

\* Formula::new for one input clause (a list of nonzero integers, given as
\* the set of its elements: the loop only sets bits, so order and
\* repetition of the list do not matter)
ClauseOfInput(lits) ==
    ClauseCreate({Variable(l) : l \in lits}, {Variable(l) : l \in {m \in lits : m < 0}})

FormulaVars(formula) == UNION {{Variable(l) : l \in formula[i]} : i \in DOMAIN formula}
FormulaMaxVar(formula) == IF FormulaVars(formula) = {} THEN 0 ELSE SetMax(FormulaVars(formula))

(***************************************************************************)
(* Tombstone slots (tombstone.rs)                                          *)
(***************************************************************************)
TombStoneNew(gen, clause) == [live |-> TRUE, gen |-> gen, next |-> None, clause |-> clause]
TombStoneDead(gen, next) == [live |-> FALSE, gen |-> gen, next |-> next, clause |-> NoClause]


(***************************************************************************)
(* The solver state is handled as a record S whose fields are the fields   *)
(* of cdcl.rs's State; S.panic names the first panic of the call that is   *)
(* being evaluated ("none" if there is none).                              *)
(***************************************************************************)
NoLit == 0
SetPanic(S, what) == IF S.panic = "none" THEN [S EXCEPT !.panic = what] ELSE S

MapPut(m, k, v) == [i \in (DOMAIN m) \cup {k} |-> IF i = k THEN v ELSE m[i]]
MapRemove(m, k) == [i \in (DOMAIN m) \ {k} |-> m[i]]

\* State::assignments
Assignments(S) == [var \in S.all_variables |-> var \in S.assignments]

\* a variant that returns the first unassigned literal of any clause
TryGetUnitLiteral_First(S, clause) ==
    LET un == S.unassigned_variables \cap clause.variables IN
    IF un = {} THEN NoLit
    ELSE LiteralNew(SetMin(un), SetMin(un) \notin clause.negatives)
\* State::try_get_unit_literal (NoLit for None)
TryGetUnitLiteral(S, clause) ==
    LET un == S.unassigned_variables \cap clause.variables IN
    IF Cardinality(un) = 1
      THEN LET var == CHOOSE v \in un : TRUE
           IN  LiteralNew(var, var \notin clause.negatives)
      ELSE NoLit

\* a variant that takes no clause for satisfied
IsSatisfied_Never(S, clause) == FALSE
\* State::is_satisfied
IsSatisfied(S, clause) ==
    \E lit \in IterLiterals(clause) :
        /\ Variable(lit) \notin S.unassigned_variables
        /\ (Variable(lit) \in S.assignments) = Value(lit)

\* State::update_watch_literals_for_new_clause_helper: the watch index and
\* the ready set after the clause at clause_idx has been installed
UpdateWatchLiteralsForNewClauseHelper(clause, clause_idx, generation, watched, ready, unassigned) ==
    LET lits == IterLiterals(clause)
        un == {l \in lits : Variable(l) \in unassigned}
        as == lits \ un
        u1 == IF un = {} THEN NoLit ELSE FirstLit(un)
        u2 == IF Cardinality(un) < 2 THEN NoLit ELSE FirstLit(un \ {u1})
        a1 == IF as = {} THEN NoLit ELSE FirstLit(as)
        a2 == IF Cardinality(as) < 2 THEN NoLit ELSE FirstLit(as \ {a1})
        Ins(w, l) == [w EXCEPT ![l] = MapPut(@, clause_idx, generation)]
    IN  CASE u1 = NoLit /\ a1 = NoLit ->
               [watched |-> watched, ready |-> ready]
          [] u1 = NoLit /\ a1 # NoLit /\ a2 = NoLit ->
               [watched |-> Ins(watched, a1), ready |-> ready]
          [] u1 = NoLit /\ a1 # NoLit /\ a2 # NoLit ->
               [watched |-> Ins(Ins(watched, a1), a2), ready |-> ready]
          [] u1 # NoLit /\ u2 = NoLit /\ a1 # NoLit ->
               [watched |-> Ins(Ins(watched, u1), a1), ready |-> ready \cup {clause_idx}]
          [] u1 # NoLit /\ u2 = NoLit /\ a1 = NoLit ->
               [watched |-> Ins(watched, u1), ready |-> ready \cup {clause_idx}]
          [] u1 # NoLit /\ u2 # NoLit ->
               [watched |-> Ins(Ins(watched, u1), u2), ready |-> ready]

\* a variant that watches the new clause by one literal only
UpdateWatchLiteralsForNewClause_OneWatch(S, clause_idx) ==
    LET lit == FirstLit(IterLiterals(S.clauses[clause_idx].clause))
    IN  [S EXCEPT !.watched_clauses[lit] = MapPut(@, clause_idx, S.clauses[clause_idx].gen)]
\* State::update_watch_literals_for_new_clause
UpdateWatchLiteralsForNewClause(S, clause_idx) ==
    LET r == UpdateWatchLiteralsForNewClauseHelper(
                 S.clauses[clause_idx].clause, clause_idx, S.clauses[clause_idx].gen,
                 S.watched_clauses, S.ready_for_unit_prop, S.unassigned_variables)
    IN  [S EXCEPT !.watched_clauses = r.watched, !.ready_for_unit_prop = r.ready]

\* State::update_watched_clauses: the loop over the watchers of the negated
\* literal, from clause index `from` on; conflict is the index of the
\* conflicting clause or None.  A watcher whose generation differs from the
\* slot's is dropped (remove_watched_clause_due_to_generation_mismatch).
RECURSIVE UpdateWatchedLoop(_, _, _)
UpdateWatchedLoop(S, literal, from) ==
    LET keys == {k \in DOMAIN S.watched_clauses[literal] : k >= from} IN
    IF keys = {} THEN [s |-> S, conflict |-> None]
    ELSE
      LET clause_idx == SetMin(keys)
          clause == S.clauses[clause_idx].clause
          cand == {lit \in IterLiterals(clause) :
                      /\ clause_idx \notin DOMAIN S.watched_clauses[lit]
                      /\ Variable(lit) \in S.unassigned_variables}
      IN  IF S.clauses[clause_idx].gen # S.watched_clauses[literal][clause_idx]
            THEN UpdateWatchedLoop(
                   [S EXCEPT !.watched_clauses[literal] = MapRemove(@, clause_idx)],
                   literal, clause_idx + 1)
          ELSE IF ~S.clauses[clause_idx].live
            THEN [s |-> SetPanic(S, "unwrap"), conflict |-> None]
          ELSE IF IsSatisfied(S, clause)
            THEN UpdateWatchedLoop(S, literal, clause_idx + 1)
          ELSE IF cand = {}
            THEN IF TryGetUnitLiteral(S, clause) = NoLit
                   THEN [s |-> S, conflict |-> clause_idx]
                   ELSE UpdateWatchedLoop(
                          [S EXCEPT !.ready_for_unit_prop = @ \cup {clause_idx}],
                          literal, clause_idx + 1)
          ELSE LET to_replace == FirstLit(cand)
                   gen == S.watched_clauses[literal][clause_idx]
               IN  UpdateWatchedLoop(
                     [S EXCEPT !.watched_clauses =
                         [[@ EXCEPT ![literal] = MapRemove(@, clause_idx)]
                             EXCEPT ![to_replace] = MapPut(@, clause_idx, gen)]],
                     literal, clause_idx + 1)

\* a variant that leaves the watchers alone and reports no conflict
UpdateWatchedClauses_NoConflict(S, set_literal) == [s |-> S, conflict |-> None]
UpdateWatchedClauses(S, set_literal) == UpdateWatchedLoop(S, Negate(set_literal), 0)

\* the two (score, literal) pairs of a literal's variable
ScorePairs(S, literal) ==
    {<<S.score_for_literal[literal], literal>>,
     <<S.score_for_literal[Negate(literal)], Negate(literal)>>}

\* the trail of S makes the literal true / false
OnTrail(S, lit) == \E i \in DOMAIN S.trail : S.trail[i].literal = lit
FalseOnTrail(S, lit) == OnTrail(S, Negate(lit))

\* the live clauses of S whose literals are all false
FalsifiedClauses(S) ==
    {idx \in DOMAIN S.clauses :
        /\ S.clauses[idx].live
        /\ \A lit \in IterLiterals(S.clauses[idx].clause) : FalseOnTrail(S, lit)}

\* State::add_to_trail: [s, conflict]
AddToTrail(S, trail_entry) ==
    LET literal == trail_entry.literal
        var == Variable(literal)
        S0 == IF S.trail_entry_idx_by_var[var] # None
                THEN SetPanic(S, "trail entry already exists") ELSE S
        S1 == [S0 EXCEPT
                 !.assignments = IF Value(literal) THEN @ \cup {var} ELSE @ \ {var},
                 !.clauses = IF trail_entry.reason.decision THEN @
                             ELSE [@ EXCEPT ![trail_entry.reason.idx].clause.num_units = @ + 1],
                 !.literal_by_score = @ \ ScorePairs(S, literal),
                 !.trail_entry_idx_by_var = [@ EXCEPT ![var] = Len0(S.trail)],
                 !.unassigned_variables = @ \ {var},
                 !.trail = Append0(@, trail_entry)]
    IN  UpdateWatchedClauses(S1, literal)

DecisionReason == [decision |-> TRUE, idx |-> None]
ClauseReason(clause_idx) == [decision |-> FALSE, idx |-> clause_idx]

\* a variant that records the propagated literal as a decision
WithUnitClause_AsDecision(S, literal, clause_idx) ==
    AddToTrail(S, [literal |-> literal, decision_level |-> S.decision_level,
                   reason |-> DecisionReason])
\* State::with_unit_clause
WithUnitClause(S, literal, clause_idx) ==
    AddToTrail(S, [literal |-> literal, decision_level |-> S.decision_level,
                   reason |-> ClauseReason(clause_idx)])

\* State::unit_propagate: [s, result, conflict] with result one of
\* "NothingToPropagate", "FinishedUnitPropagation", "Contradiction"
RECURSIVE UnitPropagateLoop(_, _)
UnitPropagateLoop(S, num_props) ==
    IF S.ready_for_unit_prop = {}
      THEN [s |-> S, conflict |-> None,
            result |-> IF num_props = 0 THEN "NothingToPropagate"
                       ELSE "FinishedUnitPropagation"]
      ELSE
        LET clause_idx == SetMin(S.ready_for_unit_prop)
            S1 == [S EXCEPT !.ready_for_unit_prop = @ \ {clause_idx}]
            literal == IF S1.clauses[clause_idx].live
                         THEN TryGetUnitLiteral(S1, S1.clauses[clause_idx].clause)
                         ELSE NoLit
        IN  IF literal = NoLit THEN UnitPropagateLoop(S1, num_props)
            ELSE With(WithUnitClause(S1, literal, clause_idx), LAMBDA r :
                 IF r.conflict # None
                   THEN [s |-> r.s, conflict |-> r.conflict, result |-> "Contradiction"]
                   ELSE UnitPropagateLoop(r.s, num_props + 1))

\* a variant that drops the ready clauses without propagating them
UnitPropagate_Skip(S) ==
    [s |-> [S EXCEPT !.ready_for_unit_prop = {}], conflict |-> None,
     result |-> "NothingToPropagate"]
UnitPropagate(S) == UnitPropagateLoop(S, 0)

\* the states in which unit_propagate, called in S, pops a clause index off
\* ready_for_unit_prop (the heads of its loop's iterations)
RECURSIVE UnitPropagateHeads(_)
UnitPropagateHeads(S) ==
    IF S.ready_for_unit_prop = {} THEN {}
    ELSE
      LET clause_idx == SetMin(S.ready_for_unit_prop)
          S1 == [S EXCEPT !.ready_for_unit_prop = @ \ {clause_idx}]
          literal == IF S1.clauses[clause_idx].live
                       THEN TryGetUnitLiteral(S1, S1.clauses[clause_idx].clause)
                       ELSE NoLit
          r == WithUnitClause(S1, literal, clause_idx)
      IN  {S} \cup (IF literal = NoLit THEN UnitPropagateHeads(S1)
                    ELSE IF r.conflict # None THEN {}
                    ELSE UnitPropagateHeads(r.s))

(***************************************************************************)
(* Conflict analysis, backjumping, restarts                                *)
(***************************************************************************)
\* the decision level of a variable's trail entry, None if it has none
LevelOfVar(S, var) ==
    IF S.trail_entry_idx_by_var[var] = None THEN None
    ELSE S.trail[S.trail_entry_idx_by_var[var]].decision_level

\* State::only_one_at_level's count: the literals of a clause whose variable
\* is assigned at the current decision level
NumAtLevel(S, clause) ==
    Cardinality({var \in clause.variables : LevelOfVar(S, var) = S.decision_level})

\* State::second_highest_decision_level: the loop over the literals in
\* ascending variable order, from variable `from` on
RECURSIVE SecondHighestLoop(_, _, _, _, _)
SecondHighestLoop(S, clause, from, max1, max2) ==
    LET rest == {v \in clause.variables : v >= from} IN
    IF rest = {} THEN max2
    ELSE LET var == SetMin(rest)
             lvl == LevelOfVar(S, var)
         IN  IF lvl = None THEN SecondHighestLoop(S, clause, var + 1, max1, max2)
             ELSE IF lvl > max1 THEN SecondHighestLoop(S, clause, var + 1, lvl, max1)
             ELSE IF lvl > max2 /\ lvl < max1
                    THEN SecondHighestLoop(S, clause, var + 1, max1, lvl)
             ELSE SecondHighestLoop(S, clause, var + 1, max1, max2)

SecondHighestDecisionLevel(S, clause) == SecondHighestLoop(S, clause, 0, 0, 0)

\* State::rescale_vsids: the loop over the literals of the list, each score
\* divided by rescale and its pair of literal_by_score replaced if there is one
RECURSIVE RescaleVsidsLoop(_, _, _)
RescaleVsidsLoop(S, literals, rescale) ==
    IF literals = <<>> THEN S
    ELSE LET literal == Head(literals)
             score == S.score_for_literal[literal]
             rem == <<score, literal>> \in S.literal_by_score
         IN  RescaleVsidsLoop(
               [S EXCEPT
                  !.score_for_literal = [@ EXCEPT ![literal] = score \div rescale],
                  !.literal_by_score =
                      IF rem THEN (@ \ {<<score, literal>>}) \cup {<<score \div rescale, literal>>}
                      ELSE @],
               Tail(literals), rescale)

\* the literals of the variables in vars: for each variable in ascending
\* order the negative literal, then the positive one
RECURSIVE BothLiterals(_)
BothLiterals(vars) ==
    IF vars = {} THEN <<>>
    ELSE <<LiteralNew(SetMin(vars), FALSE), LiteralNew(SetMin(vars), TRUE)>>
            \o BothLiterals(vars \ {SetMin(vars)})

\* State::rescale_vsids, with rescale for vsids_activity_rescale
RescaleVsids(S, rescale) ==
    [RescaleVsidsLoop(S, BothLiterals(S.all_variables), rescale)
        EXCEPT !.vsids_inc = @ \div rescale]

\* a variant that changes the score and leaves literal_by_score as it was
AddVsidsActivity_ScoreOnly(S, literal) ==
    [S EXCEPT !.score_for_literal = [@ EXCEPT ![literal] = @ + S.vsids_inc]]
\* State::add_vsids_activity.  The rescale branch (score > 1e20) is not
\* taken: the activities of the bounded runs stay far below the threshold.
AddVsidsActivity(S, literal) ==
    LET score == S.score_for_literal[literal]
        rem == <<score, literal>> \in S.literal_by_score
    IN  [S EXCEPT
           !.score_for_literal = [@ EXCEPT ![literal] = score + S.vsids_inc],
           !.literal_by_score =
               IF rem THEN (@ \ {<<score, literal>>}) \cup {<<score + S.vsids_inc, literal>>}
               ELSE @]

\* State::decay_vsids_activities: vsids_inc /= vsids_decay_factor
DecayVsidsActivities(S) ==
    [S EXCEPT !.vsids_inc = (@ * VsidsDecayDen) \div VsidsDecayNum]

\* State::add_clause_activity (its rescale result is never true, as above)
AddClauseActivity(S, clause_idx) ==
    [S EXCEPT !.clauses = [@ EXCEPT ![clause_idx].clause.score = @ + S.cla_inc]]

\* State::decay_clause_activities: cla_inc /= cla_decay_factor
DecayClauseActivities(S) ==
    [S EXCEPT !.cla_inc = (@ * ClaDecayDen) \div ClaDecayNum]

\* the change of num_at_level when the reason clause of trail_entry is
\* resolved into learned
NumAtLevelDelta(S, learned, reason_clause, trail_entry) ==
    LET tvar == Variable(trail_entry.literal)
        vs == {var \in reason_clause.variables :
                  /\ (var = tvar \/ var \notin learned.variables)
                  /\ LevelOfVar(S, var) = S.decision_level}
    IN  Cardinality(vs \ {tvar}) - Cardinality(vs \cap {tvar})

\* State::learn_clause_from_failure: the walk back over the trail, from
\* trail index trail_entry_idx down; [s, learned].  The walk ends at the
\* first panic (a Decision reason, or resolve_exn refusing to resolve).
RECURSIVE LearnLoop(_, _, _, _)
LearnLoop(S, learned, num_at_level, trail_entry_idx) ==
    IF trail_entry_idx < 0 \/ num_at_level = 1 THEN [s |-> S, learned |-> learned]
    ELSE
      LET trail_entry == S.trail[trail_entry_idx]
          var == Variable(trail_entry.literal)
          S1 == AddVsidsActivity(S, trail_entry.literal)
          clause_idx == trail_entry.reason.idx
          S2 == AddClauseActivity(S1, clause_idx)
          reason_clause == S2.clauses[clause_idx].clause
      IN  IF var \notin learned.variables
            THEN LearnLoop(S, learned, num_at_level, trail_entry_idx - 1)
          ELSE IF trail_entry.reason.decision
            THEN [s |-> SetPanic(S1, "found decision walking back from conflict"),
                  learned |-> learned]
          ELSE IF ~CanResolve(learned, reason_clause, var)
            THEN [s |-> SetPanic(S2, "Cannot resolve clauses"), learned |-> learned]
          ELSE LearnLoop(S2, ResolveExn(learned, reason_clause, var),
                         num_at_level + NumAtLevelDelta(S2, learned, reason_clause, trail_entry),
                         trail_entry_idx - 1)

\* a variant that learns the empty clause from every conflict
LearnClauseFromFailure_Empty(S, failed_clause_idx) ==
    [s |-> S, learned |-> [ClauseCreate({}, {}) EXCEPT !.from_conflict = TRUE]]
LearnClauseFromFailure(S, failed_clause_idx) ==
    LET learned == [ClauseCopy(S.clauses[failed_clause_idx].clause)
                       EXCEPT !.from_conflict = TRUE]
    IN  LearnLoop(S, learned, NumAtLevel(S, learned), Len0(S.trail) - 1)

\* a variant that leaves the variable out of unassigned_variables
UndoEntry_LeaveAssigned(S, trail_entry) ==
    [S EXCEPT !.trail_entry_idx_by_var =
                 [@ EXCEPT ![Variable(trail_entry.literal)] = None]]
\* a variant that leaves num_units of the reason clause as it was
UndoEntry_KeepNumUnits(S, trail_entry) ==
    LET literal == trail_entry.literal IN
    [S EXCEPT
       !.literal_by_score = @ \cup ScorePairs(S, literal),
       !.trail_entry_idx_by_var = [@ EXCEPT ![Variable(literal)] = None],
       !.unassigned_variables = @ \cup {Variable(literal)}]
\* State::undo_entry
UndoEntry(S, trail_entry) ==
    LET literal == trail_entry.literal IN
    [S EXCEPT
       !.literal_by_score = @ \cup ScorePairs(S, literal),
       !.trail_entry_idx_by_var = [@ EXCEPT ![Variable(literal)] = None],
       !.unassigned_variables = @ \cup {Variable(literal)},
       !.clauses = IF trail_entry.reason.decision THEN @
                   ELSE [@ EXCEPT ![trail_entry.reason.idx].clause.num_units = @ - 1]]

\* pop the last trail entry and undo it
PopAndUndo(S) == UndoEntry([S EXCEPT !.trail = Front0(@)], Last0(S.trail))

\* State::restart's first loop: pop and undo every trail entry
RECURSIVE PopAll(_)
PopAll(S) == IF Len0(S.trail) = 0 THEN S ELSE PopAll(PopAndUndo(S))

\* a variant of restart that does not rescan the clauses for unit clauses
Restart_NoRescan(S) == PopAll([S EXCEPT !.ready_for_unit_prop = {}])
\* a variant of restart that keeps the trail and only refills the ready set
Restart_KeepTrail(S) ==
    [S EXCEPT !.ready_for_unit_prop =
        {clause_idx \in DOMAIN S.clauses :
            /\ S.clauses[clause_idx].live
            /\ TryGetUnitLiteral(S, S.clauses[clause_idx].clause) # NoLit}]
\* State::restart.  It leaves decision_level as it is.
Restart(S) ==
    LET S1 == PopAll([S EXCEPT !.ready_for_unit_prop = {}]) IN
    [S1 EXCEPT !.ready_for_unit_prop =
        {clause_idx \in DOMAIN S1.clauses :
            /\ S1.clauses[clause_idx].live
            /\ TryGetUnitLiteral(S1, S1.clauses[clause_idx].clause) # NoLit}]

\* State::remove_from_trail_helper(Some(decision_level))
RECURSIVE PopAbove(_, _)
PopAbove(S, decision_level) ==
    IF Len0(S.trail) = 0 \/ Last0(S.trail).decision_level <= decision_level THEN S
    ELSE PopAbove(PopAndUndo(S), decision_level)

RemoveFromTrailHelper(S, remove_greater_than) ==
    LET S1 == PopAbove(S, remove_greater_than) IN
    [S1 EXCEPT !.decision_level =
        IF Len0(S1.trail) = 0 THEN 0 ELSE Last0(S1.trail).decision_level]

\* the list without its elements equal to x
RECURSIVE Without1(_, _)
Without1(list, x) ==
    IF list = <<>> THEN <<>>
    ELSE IF Head(list) = x THEN Without1(Tail(list), x)
    ELSE <<Head(list)>> \o Without1(Tail(list), x)

\* a variant of push_clause that always appends
PushClause_Append(S, clause) ==
    [s |-> [S EXCEPT !.clauses = Append0(@, TombStoneNew(0, clause))],
     idx |-> Len0(S.clauses)]
\* State::push_clause: [s, idx].  S.tombstoned is not a field of State: it
\* lists the slots that are tombstones, in the order of their deletion.
PushClause(S, clause) ==
    IF S.clauses_first_tombstone = None
      THEN [s |-> [S EXCEPT !.clauses = Append0(@, TombStoneNew(0, clause))],
            idx |-> Len0(S.clauses)]
      ELSE LET idx == S.clauses_first_tombstone
               gen == S.clauses[idx].gen
           IN  [s |-> [S EXCEPT !.clauses_first_tombstone = S.clauses[idx].next,
                                !.clauses = [@ EXCEPT ![idx] = TombStoneNew(gen + 1, clause)],
                                !.tombstoned = Without1(@, idx)],
                idx |-> idx]

\* a variant that leaves the generation of the slot as it was
DeleteClause_SameGeneration(S, idx) ==
    LET clause == S.clauses[idx].clause IN
    [S EXCEPT
       !.clauses_by_var = [lit \in DOMAIN @ |->
           IF lit \in IterLiterals(clause) THEN @[lit] \ {idx} ELSE @[lit]],
       !.clauses = [@ EXCEPT ![idx] =
                      TombStoneDead(S.clauses[idx].gen, S.clauses_first_tombstone)],
       !.clauses_first_tombstone = idx,
       !.tombstoned = Append(@, idx)]
\* State::delete_clause
DeleteClause(S, idx) ==
    LET clause == S.clauses[idx].clause IN
    [S EXCEPT
       !.clauses_by_var = [lit \in DOMAIN @ |->
           IF lit \in IterLiterals(clause) THEN @[lit] \ {idx} ELSE @[lit]],
       !.clauses = [@ EXCEPT ![idx] =
                      TombStoneDead(S.clauses[idx].gen + 1, S.clauses_first_tombstone)],
       !.clauses_first_tombstone = idx,
       !.tombstoned = Append(@, idx)]

\* add_vsids_activity for each literal of a set (backtrack's loop over the
\* learned clause; the order does not matter to the result)
RECURSIVE AddVsidsActivities(_, _)
AddVsidsActivities(S, set) ==
    IF set = {} THEN S
    ELSE LET x == CHOOSE y \in set : TRUE
         IN  AddVsidsActivities(AddVsidsActivity(S, x), set \ {x})

\* delete_clause for each clause index of a list, in the order of the list
RECURSIVE DeleteClauses(_, _)
DeleteClauses(S, list) ==
    IF list = <<>> THEN S
    ELSE DeleteClauses(DeleteClause(S, Head(list)), Tail(list))

\* State::backtrack after learn_clause_from_failure has returned
\* learned_clause, leaving the state S1
InstallLearned(S1, learned_clause) ==
    With(AddVsidsActivities(S1, IterLiterals(learned_clause)), LAMBDA S2 :
    With([S2 EXCEPT !.clauses_by_var = [lit \in DOMAIN @ |->
             IF lit \in IterLiterals(learned_clause)
               THEN @[lit] \cup {Len0(S2.clauses)} ELSE @[lit]]], LAMBDA S3 :
    With(PushClause(RemoveFromTrailHelper(DecayVsidsActivities(S3),
                        SecondHighestDecisionLevel(S2, learned_clause)),
                    learned_clause), LAMBDA P :
    UpdateWatchLiteralsForNewClause([P.s EXCEPT !.ready_for_unit_prop = {}], P.idx))))

\* State::backtrack
Backtrack(S, failed_clause_idx) ==
    With(LearnClauseFromFailure(S, failed_clause_idx), LAMBDA L :
        IF L.s.panic # "none" THEN L.s ELSE InstallLearned(L.s, L.learned))

(***************************************************************************)
(* Luby (luby.rs)                                                          *)
(***************************************************************************)
RECURSIVE Pow2(_)
Pow2(k) == IF k = 0 THEN 1 ELSE 2 * Pow2(k - 1)

\* the k that luby_term's while loop ends with
RECURSIVE LubyK(_, _)
LubyK(n, k) == IF Pow2(k) - 1 < n THEN LubyK(n, k + 1) ELSE k

RECURSIVE LubyTerm(_)
LubyTerm(n) ==
    LET k == LubyK(n, 1) IN
    IF n = Pow2(k) - 1 THEN Pow2(k - 1)
    ELSE LubyTerm(n - (Pow2(k - 1) - 1))

LubyNew(unit_run) == [u |-> unit_run, i |-> 1]
LubyValue(luby) == luby.u * LubyTerm(luby.i)

\* a variant of next that returns the value without moving on
LubyNext_Stay(luby) == [luby |-> luby, value |-> LubyValue(luby)]
\* Iterator::next for Luby: [luby, value], value standing for Some(value)
LubyNext(luby) ==
    LET moved == [luby EXCEPT !.i = @ + 1]
    IN  [luby |-> moved, value |-> LubyValue(moved)]

(***************************************************************************)
(* The step machine                                                        *)
(***************************************************************************)
Continue == [kind |-> "Continue", model |-> EmptyFn]
DoneUnsat == [kind |-> "Unsat", model |-> EmptyFn]
DoneSat(assignment) == [kind |-> "Sat", model |-> assignment]

\* State::react for Action::Continue(literal): the decision is pushed and
\* the conflict that add_to_trail may report is dropped.  S.dropped_conflict
\* and S.falsified_by_decision are not fields of State: the first keeps the
\* first value that react has dropped that was not None, the second the
\* clauses that were falsified when a decision had just been pushed.
ReactContinue(S, literal) ==
    With(AddToTrail(S, [literal |-> literal, decision_level |-> S.decision_level,
                        reason |-> DecisionReason]), LAMBDA r :
        [s |-> IF r.s.panic # "none" THEN r.s
               ELSE [r.s EXCEPT
                       !.dropped_conflict = IF @ = None THEN r.conflict ELSE @,
                       !.falsified_by_decision = @ \cup FalsifiedClauses(r.s)],
         result |-> Continue])

\* State::react for Action::Contradiction(failed_idx)
ReactContradiction(S, failed_idx) ==
    IF S.decision_level = 0 THEN [s |-> S, result |-> DoneUnsat]
    ELSE With(Backtrack([S EXCEPT !.conflicts = @ + 1], failed_idx), LAMBDA S1 :
         [s |-> IF S1.panic = "none" /\ S1.conflicts >= LubyValue(S1.luby)
                  THEN Restart([S1 EXCEPT !.conflicts = 0])
                  ELSE S1,
          result |-> Continue])

\* choose_vsids_literal: the last (greatest) pair of literal_by_score, which
\* is ordered by score and then by the literal's integer
ChooseVsidsLiteral(S) ==
    IF S.literal_by_score = {} THEN NoLit
    ELSE (CHOOSE p \in S.literal_by_score :
             \A q \in S.literal_by_score :
                 q[1] < p[1] \/ (q[1] = p[1] /\ q[2] <= p[2]))[2]

\* choose_random_literal: any unassigned variable with any value (the
\* generator's draws are not modelled), NoLit when there is none
ChooseRandomLiterals_MayStop(S) ==
    {NoLit} \cup {LiteralNew(var, value) : var \in S.unassigned_variables, value \in BOOLEAN}
ChooseRandomLiterals(S) ==
    IF S.unassigned_variables = {} THEN {NoLit}
    ELSE {LiteralNew(var, value) : var \in S.unassigned_variables, value \in BOOLEAN}

\* a variant in which every configuration picks any unassigned literal
ChooseLiterals_Unordered(S) == ChooseRandomLiterals(S)
\* the literals Config::choose_literal may return in S
ChooseLiterals(S) ==
    IF S.config = "vsids" THEN {ChooseVsidsLiteral(S)} ELSE ChooseRandomLiterals(S)

\* State::make_decision; chosen is what Config::choose_literal returns
MakeDecision(S, literal_override, chosen) ==
    LET literal == IF literal_override # NoLit THEN literal_override ELSE chosen IN
    IF literal = NoLit THEN [s |-> S, result |-> DoneSat(Assignments(S))]
    ELSE ReactContinue([S EXCEPT !.decision_level = @ + 1], literal)

\* State::can_trim_clause
CanTrimClause(S, clause) ==
    /\ clause.num_units = 0
    /\ Cardinality({LevelOfVar(S, var) : var \in clause.variables} \ {None}) >= 3
    /\ Cardinality(clause.variables) >= 3

\* the clauses State::simplify_clauses collects in sorting_buckets
TrimCandidates(S) ==
    {idx \in DOMAIN S.clauses :
        /\ idx >= S.num_initial_clauses
        /\ S.clauses[idx].live
        /\ S.clauses[idx].clause.from_conflict
        /\ S.clauses[idx].clause.num_units = 0
        /\ CanTrimClause(S, S.clauses[idx].clause)}

\* a variant that leaves the clauses in index order, whatever their score
SortByScore_Index(S, set) ==
    [i \in 1..Cardinality(set) |->
        CHOOSE a \in set : Cardinality({b \in set : b < a}) = i - 1]
\* sort_by on the score, stable: equal scores stay in index order
RECURSIVE SortByScore(_, _)
SortByScore(S, set) ==
    IF set = {} THEN <<>>
    ELSE LET first == CHOOSE a \in set : \A b \in set :
                          \/ S.clauses[a].clause.score < S.clauses[b].clause.score
                          \/ /\ S.clauses[a].clause.score = S.clauses[b].clause.score
                             /\ a <= b
         IN  <<first>> \o SortByScore(S, set \ {first})

\* a variant that drops every learned clause, eligible or not
SimplifyClauses_DropLearned(S) ==
    LET sorting_buckets == SortByScore(S, {idx \in DOMAIN S.clauses :
                               /\ idx >= S.num_initial_clauses
                               /\ S.clauses[idx].live
                               /\ S.clauses[idx].clause.from_conflict})
    IN  [DeleteClauses(S, sorting_buckets) EXCEPT !.clause_sorting_buckets = sorting_buckets]
\* State::simplify_clauses
SimplifyClauses(S) ==
    LET sorting_buckets == SortByScore(S, TrimCandidates(S))
        num_to_drop == Len(sorting_buckets) \div 2
        dropped == SubSeq(sorting_buckets, 1, num_to_drop)
    IN  [DeleteClauses(S, dropped) EXCEPT !.clause_sorting_buckets = sorting_buckets]

\* State::step up to its test of instantly_unsat: the iteration is counted
\* and the clause database reduced when its period has come
StepEntry(S) ==
    IF (S.iterations + 1) % S.simplify_clauses_every = 0
      THEN DecayClauseActivities(SimplifyClauses([S EXCEPT !.iterations = @ + 1]))
      ELSE [S EXCEPT !.iterations = @ + 1]

\* State::step; chosen is what Config::choose_literal returns if it is asked
Step(S, literal_override, chosen) ==
    With(StepEntry(S), LAMBDA S1 :
    IF S1.instantly_unsat THEN [s |-> S1, result |-> DoneUnsat]
    ELSE With(UnitPropagate(S1), LAMBDA up :
        IF up.result = "NothingToPropagate"
          THEN MakeDecision(up.s, literal_override, chosen)
        ELSE IF up.result = "FinishedUnitPropagation"
          THEN [s |-> up.s, result |-> Continue]
        ELSE ReactContradiction(up.s, up.conflict)))

\* State::stabilize_assumption: [s, result], Continue standing for None
StabilizeAssumption(S) ==
    With(UnitPropagate(S), LAMBDA up :
        [s |-> up.s, result |-> IF up.result = "Contradiction" THEN DoneUnsat ELSE Continue])

\* State::run_with_assumptions up to its call of run_inner: the loop over
\* the assumptions from position pos on (1-based in the list); a result of
\* Continue means that run_inner is entered
RECURSIVE AssumeLoop(_, _, _)
\* a variant that pushes every assumption without looking at its variable
AssumeLoop_PushAnyway(S, assumptions, pos) ==
    IF pos > Len(assumptions) THEN [s |-> S, result |-> Continue]
    ELSE With(MakeDecision(S, assumptions[pos], NoLit), LAMBDA md :
         IF md.result.kind # "Continue" THEN md
         ELSE With(StabilizeAssumption(md.s), LAMBDA st :
              IF st.result.kind # "Continue" THEN st
              ELSE AssumeLoop(st.s, assumptions, pos + 1)))
AssumeLoop(S, assumptions, pos) ==
    IF pos > Len(assumptions) THEN [s |-> S, result |-> Continue]
    ELSE
      LET lit_val == assumptions[pos]
          var == Variable(lit_val)
          value == lit_val > 0
      IN  IF var \notin S.unassigned_variables
            THEN IF (var \in S.assignments) # value
                   THEN [s |-> S, result |-> DoneUnsat]
                   ELSE AssumeLoop(S, assumptions, pos + 1)
          ELSE With(MakeDecision(S, LiteralNew(var, value), NoLit), LAMBDA md :
               IF md.result.kind # "Continue" THEN md
               ELSE With(StabilizeAssumption(md.s), LAMBDA st :
                    IF st.result.kind # "Continue" THEN st
                    ELSE AssumeLoop(st.s, assumptions, pos + 1)))

\* the heads of the iterations of run_with_assumptions' loop from position
\* pos on: [s, pos], s being the state in which assumptions[pos] is read
RECURSIVE AssumeHeads(_, _, _)
AssumeHeads(S, assumptions, pos) ==
    IF pos > Len(assumptions) THEN {}
    ELSE
      LET lit_val == assumptions[pos]
          var == Variable(lit_val)
          value == lit_val > 0
          md == MakeDecision(S, LiteralNew(var, value), NoLit)
          st == StabilizeAssumption(md.s)
      IN  {[s |-> S, pos |-> pos]} \cup
          (IF var \notin S.unassigned_variables
             THEN IF (var \in S.assignments) # value THEN {}
                  ELSE AssumeHeads(S, assumptions, pos + 1)
           ELSE IF md.result.kind # "Continue" \/ st.result.kind # "Continue" THEN {}
           ELSE AssumeHeads(st.s, assumptions, pos + 1))

RunWithAssumptionsPrefix(S, assumptions) ==
    With(StabilizeAssumption(Restart(S)), LAMBDA st :
        IF st.result.kind # "Continue" THEN st
        ELSE AssumeLoop(st.s, assumptions, 1))

\* State::run_inner: what each run of the loop from S ends with, one
\* [s, result] for every way the configuration may choose its literals; a
\* run that panics ends with the result Panicked
Panicked == [kind |-> "Panic", model |-> EmptyFn]

RECURSIVE RunInner(_)
RunInner(S) ==
    UNION {With(Step(S, NoLit, chosen), LAMBDA r :
               IF r.s.panic # "none" THEN {[s |-> r.s, result |-> Panicked]}
               ELSE IF r.result.kind = "Continue" THEN RunInner(r.s)
               ELSE {r}) : chosen \in ChooseLiterals(S)}

(***************************************************************************)
(* Construction (State::new_with_pool_and_debug_writer)                    *)
(***************************************************************************)
LitsUpTo(max_var) == {l \in (0 - max_var)..max_var : l # 0}

\* the loop that installs the watches of the initial clauses, from idx on
RECURSIVE InstallInitial(_, _, _, _)
InstallInitial(clauses, idx, acc, variables_bitset) ==
    IF idx >= Len0(clauses) THEN acc
    ELSE InstallInitial(clauses, idx + 1,
           UpdateWatchLiteralsForNewClauseHelper(clauses[idx].clause, idx, 0,
               acc.watched, acc.ready, variables_bitset),
           variables_bitset)

\* a variant that never marks the formula instantly unsatisfiable
InstantlyUnsat_Never(clauses) == FALSE
\* the constructor's instantly_unsat: some clause has no variable
InstantlyUnsat(clauses) ==
    \E idx \in DOMAIN clauses : clauses[idx].clause.variables = {}

\* formula is the list of input clauses (1-based, as given by the caller)
NewState(formula, config) ==
    LET max_var == FormulaMaxVar(formula)
        vars == FormulaVars(formula)
        clauses == [idx \in 0..(Len(formula) - 1) |->
                       TombStoneNew(0, ClauseOfInput(formula[idx + 1]))]
        clauses_by_var == [lit \in LitsUpTo(max_var) |->
                       {idx \in DOMAIN clauses : lit \in IterLiterals(clauses[idx].clause)}]
        w == InstallInitial(clauses, 0,
                 [watched |-> [lit \in LitsUpTo(max_var) |-> EmptyFn], ready |-> {}], vars)
        score_for_literal == [lit \in LitsUpTo(max_var) |->
                                 Cardinality(clauses_by_var[lit]) * ScoreOne]
    IN  [luby |-> LubyNew(LubyUnit),
         conflicts |-> 0,
         cla_inc |-> ClaOne,
         vsids_inc |-> ScoreOne,
         score_for_literal |-> score_for_literal,
         literal_by_score |-> {<<score_for_literal[lit], lit>> :
                                  lit \in {l \in LitsUpTo(max_var) : Variable(l) \in vars}},
         simplify_clauses_every |-> SimplifyEvery,
         all_variables |-> vars,
         assignments |-> {},
         clauses_first_tombstone |-> None,
         clauses |-> clauses,
         clause_sorting_buckets |-> <<>>,
         watched_clauses |-> w.watched,
         ready_for_unit_prop |-> w.ready,
         trail |-> EmptyFn,
         unassigned_variables |-> vars,
         num_initial_clauses |-> Len(formula),
         clauses_by_var |-> clauses_by_var,
         trail_entry_idx_by_var |-> [var \in 0..max_var |-> None],
         decision_level |-> 0,
         iterations |-> 0,
         instantly_unsat |-> InstantlyUnsat(clauses),
         config |-> config,
         panic |-> "none",
         dropped_conflict |-> None, falsified_by_decision |-> {},
         tombstoned |-> <<>>]

(***************************************************************************)
(* add_clause.  The operation is named by the driver's interface and used  *)
(* by tests/test_cdcl_incr.rs, but cdcl.rs does not hold it; it is         *)
(* modelled from the specification's description: "add the new clause and  *)
(* reconcile watches".  The clause is ingested as the constructor ingests  *)
(* the clauses of a formula.                                               *)
(***************************************************************************)
\* the tables indexed by literal or variable, grown to hold max_var
Grow(S, max_var) ==
    [S EXCEPT
       !.watched_clauses = [lit \in LitsUpTo(max_var) |->
                               IF lit \in DOMAIN @ THEN @[lit] ELSE EmptyFn],
       !.clauses_by_var = [lit \in LitsUpTo(max_var) |->
                               IF lit \in DOMAIN @ THEN @[lit] ELSE {}],
       !.score_for_literal = [lit \in LitsUpTo(max_var) |->
                               IF lit \in DOMAIN @ THEN @[lit] ELSE 0],
       !.trail_entry_idx_by_var = [var \in 0..max_var |->
                               IF var \in DOMAIN @ THEN @[var] ELSE None]]

\* the clause is in the pool at idx: count it for its literals and make its
\* new variables known
Ingest(S, clause, idx) ==
    LET lits == IterLiterals(clause)
        new_vars == clause.variables \ S.all_variables
        score == [lit \in DOMAIN S.score_for_literal |->
                     S.score_for_literal[lit] + (IF lit \in lits THEN ScoreOne ELSE 0)]
        unassigned == S.unassigned_variables \cup new_vars
    IN  [S EXCEPT
           !.all_variables = @ \cup new_vars,
           !.unassigned_variables = unassigned,
           !.clauses_by_var = [lit \in DOMAIN @ |->
                                  IF lit \in lits THEN @[lit] \cup {idx} ELSE @[lit]],
           !.score_for_literal = score,
           !.literal_by_score = {<<score[lit], lit>> :
                                    lit \in {l \in DOMAIN score : Variable(l) \in unassigned}},
           !.instantly_unsat = @ \/ clause.variables = {}]

\* add_clause(literals), literals given as the set of its elements
AddClause(S, literals) ==
    With(PushClause(Grow(S, SetMax({Len0(S.trail_entry_idx_by_var) - 1}
                                      \cup {Variable(l) : l \in literals})),
                    ClauseOfInput(literals)), LAMBDA P :
        UpdateWatchLiteralsForNewClause(Ingest(P.s, P.s.clauses[P.idx].clause, P.idx), P.idx))

(***************************************************************************)
(* The word-array bitset (fixed_bitset.rs).  A bitset is [n, storage]: n   *)
(* is the number N of words of a block and storage the Vec of blocks, each *)
(* a function from 0..n-1 to words.  A word is an integer of WordBits      *)
(* bits (usize).  An Option<usize> is its value or None.                   *)
(***************************************************************************)
WordModulus == Pow2(WordBits)
\* usize::MAX
WordMax == WordModulus - 1

\* the offsets of the bits of a word that are 1, and the word of a set of
\* offsets
OffsetsOf(w) == {o \in 0..(WordBits - 1) : (w \div Pow2(o)) % 2 = 1}
RECURSIVE WordOf(_)
WordOf(offsets) ==
    IF offsets = {} THEN 0
    ELSE LET o == CHOOSE x \in offsets : TRUE IN Pow2(o) + WordOf(offsets \ {o})

\* a & b, a | b, !a, x << o (for o < usize::BITS), x >> o
WordAnd(a, b) == WordOf(OffsetsOf(a) \cap OffsetsOf(b))
WordOr(a, b) == WordOf(OffsetsOf(a) \cup OffsetsOf(b))
WordNot(a) == WordMax - a
Shl(x, o) == (x * Pow2(o)) % WordModulus
Shr(x, o) == x \div Pow2(o)
\* usize::trailing_zeros and usize::count_ones
TrailingZeros(w) == IF w = 0 THEN WordBits ELSE SetMin(OffsetsOf(w))
CountOnes(w) == Cardinality(OffsetsOf(w))

\* BITS_PER_BLOCK
BitsPerBlock(bs) == bs.n * WordBits

\* BitSet::new(blocks), with N = n
BsNew(n, blocks) ==
    [n |-> n, storage |-> [b \in 0..(blocks - 1) |-> [i \in 0..(n - 1) |-> 0]]]

\* BlockStorage::resize (Vec: extend with zeroed blocks)
BsResize(bs, blocks) ==
    [bs EXCEPT !.storage = [b \in 0..(blocks - 1) |->
                               IF b \in DOMAIN @ THEN @[b] ELSE [i \in 0..(bs.n - 1) |-> 0]]]

\* BitSet::grow
BsGrow(bs, bits_needed) ==
    LET needed_blocks == (bits_needed + BitsPerBlock(bs) - 1) \div BitsPerBlock(bs) IN
    IF needed_blocks > Len0(bs.storage) THEN BsResize(bs, needed_blocks) ELSE bs

\* BitSet::capacity
BsCapacity(bs) == Len0(bs.storage) * BitsPerBlock(bs)

\* BitSet::locate: [b, w, o]
Locate(bs, bit) ==
    [b |-> bit \div BitsPerBlock(bs),
     w |-> (bit % BitsPerBlock(bs)) \div WordBits,
     o |-> (bit % BitsPerBlock(bs)) % WordBits]

\* a variant of set that does not grow the storage
BsSet_NoGrow(bs, bit) ==
    IF bit >= BsCapacity(bs) THEN bs
    ELSE [bs EXCEPT !.storage[Locate(bs, bit).b][Locate(bs, bit).w] =
                       WordOr(@, Shl(1, Locate(bs, bit).o))]
\* BitSet::set
BsSet(bs, bit) ==
    LET l == Locate(bs, bit) IN
    [BsGrow(bs, bit + 1) EXCEPT !.storage[l.b][l.w] = WordOr(@, Shl(1, l.o))]

\* BitSet::clear
BsClear(bs, bit) ==
    LET l == Locate(bs, bit) IN
    IF bit >= BsCapacity(bs) THEN bs
    ELSE [bs EXCEPT !.storage[l.b][l.w] = WordAnd(@, WordNot(Shl(1, l.o)))]

\* BitSet::contains
BsContains(bs, bit) ==
    LET l == Locate(bs, bit) IN
    IF bit >= BsCapacity(bs) THEN FALSE
    ELSE WordAnd(Shr(bs.storage[l.b][l.w], l.o), 1) # 0

\* BlockStorage::first_set_block_ge and first_unset_block_ge (Vec)
FirstSetBlockGe(bs, start) ==
    LET found == {b \in start..(Len0(bs.storage) - 1) :
                     \E i \in 0..(bs.n - 1) : bs.storage[b][i] # 0}
    IN  IF found = {} THEN None ELSE SetMin(found)
FirstUnsetBlockGe(bs, start) ==
    LET found == {b \in start..(Len0(bs.storage) - 1) :
                     \E i \in 0..(bs.n - 1) : bs.storage[b][i] # WordMax}
    IN  IF found = {} THEN None ELSE SetMin(found)

\* the bit index of the lowest 1 of the first word of block b, from word
\* from_w on, that differs from skip (0 or usize::MAX), the 1s of a word
\* being those of the word itself (skip = 0) or of its complement
FirstInBlock(bs, b, from_w, skip) ==
    LET ws == {wi \in from_w..(bs.n - 1) : bs.storage[b][wi] # skip} IN
    IF ws = {} THEN None
    ELSE b * BitsPerBlock(bs) + SetMin(ws) * WordBits
           + TrailingZeros(IF skip = 0 THEN bs.storage[b][SetMin(ws)]
                           ELSE WordNot(bs.storage[b][SetMin(ws)]))

\* BitSet::first_set_ge
BsFirstSetGe(bs, bit) ==
    LET l == Locate(bs, bit) IN
    IF l.b >= Len0(bs.storage) THEN None
    ELSE LET mask == WordAnd(bs.storage[l.b][l.w], Shl(WordMax, l.o))
             b2 == FirstSetBlockGe(bs, l.b + 1)
         IN  IF mask # 0
               THEN l.b * BitsPerBlock(bs) + l.w * WordBits + TrailingZeros(mask)
             ELSE IF FirstInBlock(bs, l.b, l.w + 1, 0) # None
               THEN FirstInBlock(bs, l.b, l.w + 1, 0)
             ELSE IF b2 = None THEN None
             ELSE FirstInBlock(bs, b2, 0, 0)

\* BitSet::first_unset_ge
BsFirstUnsetGe(bs, bit) ==
    LET l == Locate(bs, bit) IN
    IF l.b >= Len0(bs.storage) THEN None
    ELSE LET inv == WordAnd(WordNot(bs.storage[l.b][l.w]), Shl(WordMax, l.o))
             b2 == FirstUnsetBlockGe(bs, l.b + 1)
         IN  IF inv # 0
               THEN l.b * BitsPerBlock(bs) + l.w * WordBits + TrailingZeros(inv)
             ELSE IF FirstInBlock(bs, l.b, l.w + 1, WordMax) # None
               THEN FirstInBlock(bs, l.b, l.w + 1, WordMax)
             ELSE IF b2 = None THEN None
             ELSE FirstInBlock(bs, b2, 0, WordMax)

\* BitSet::first_set and first_unset
BsFirstSet(bs) == BsFirstSetGe(bs, 0)
BsFirstUnset(bs) == BsFirstUnsetGe(bs, 0)

\* the smaller of two block counts
MinBlocks(self, other) ==
    IF Len0(self.storage) < Len0(other.storage)
      THEN Len0(self.storage) ELSE Len0(other.storage)

\* BitSet::union_with
BsUnionWith(self, other) ==
    LET g == BsGrow(self, BsCapacity(other)) IN
    [g EXCEPT !.storage = [b \in DOMAIN @ |->
        IF b < MinBlocks(g, other)
          THEN [i \in 0..(self.n - 1) |-> WordOr(@[b][i], other.storage[b][i])]
          ELSE @[b]]]

\* BitSet::intersect_with
BsIntersectWith(self, other) ==
    [self EXCEPT !.storage = [b \in DOMAIN @ |->
        IF b < MinBlocks(self, other)
          THEN [i \in 0..(self.n - 1) |-> WordAnd(@[b][i], other.storage[b][i])]
          ELSE [i \in 0..(self.n - 1) |-> 0]]]

\* BitSet::difference_with
BsDifferenceWith(self, other) ==
    [self EXCEPT !.storage = [b \in DOMAIN @ |->
        IF b < MinBlocks(self, other)
          THEN [i \in 0..(self.n - 1) |-> WordAnd(@[b][i], WordNot(other.storage[b][i]))]
          ELSE @[b]]]

\* BitSet::usize_iter_ones: the offsets of the 1s of a word, lowest first
RECURSIVE UsizeIterOnes(_)
UsizeIterOnes(mask) ==
    IF mask = 0 THEN <<>>
    ELSE <<TrailingZeros(mask)>>
           \o UsizeIterOnes(WordAnd(mask, WordNot(Shl(1, TrailingZeros(mask)))))

\* BitSet::iter_bit_indices: the bit indices of the words of one block, from
\* word wi on
RECURSIVE IterBitIndices(_, _, _, _)
IterBitIndices(words, block_index, wi, n) ==
    IF wi >= n THEN <<>>
    ELSE [k \in DOMAIN UsizeIterOnes(words[wi]) |->
             block_index * n * WordBits + wi * WordBits + UsizeIterOnes(words[wi])[k]]
           \o IterBitIndices(words, block_index, wi + 1, n)

\* (from..to).flat_map(|b| iter_bit_indices(blocks[b], b))
RECURSIVE FlatMapBlocks(_, _, _, _)
FlatMapBlocks(blocks, from, to, n) ==
    IF from >= to THEN <<>>
    ELSE IterBitIndices(blocks[from], from, 0, n) \o FlatMapBlocks(blocks, from + 1, to, n)

\* BitSet::iter_union
BsIterUnion(self, other) ==
    LET for_extra == IF Len0(self.storage) > Len0(other.storage) THEN self ELSE other
        min == MinBlocks(self, other)
    IN  FlatMapBlocks([b \in 0..(min - 1) |->
                          [i \in 0..(self.n - 1) |->
                              WordOr(self.storage[b][i], other.storage[b][i])]],
                      0, min, self.n)
          \o FlatMapBlocks(for_extra.storage, min, Len0(for_extra.storage), self.n)

\* BitSet::iter_intersection
BsIterIntersection(self, other) ==
    FlatMapBlocks([b \in 0..(MinBlocks(self, other) - 1) |->
                      [i \in 0..(self.n - 1) |->
                          WordAnd(self.storage[b][i], other.storage[b][i])]],
                  0, MinBlocks(self, other), self.n)

\* BitSet::iter_difference
BsIterDifference(self, other) ==
    LET min == MinBlocks(self, other) IN
    FlatMapBlocks([b \in 0..(min - 1) |->
                      [i \in 0..(self.n - 1) |->
                          WordAnd(self.storage[b][i], WordNot(other.storage[b][i]))]],
                  0, min, self.n)
      \o FlatMapBlocks(self.storage, min, Len0(self.storage), self.n)

\* 1 << num_to_zero in iter_intersection_ge overflows when num_to_zero
\* exceeds the word's width
ShiftOverflows(self, ge) == ge % BitsPerBlock(self) > WordBits

\* BitSet::iter_intersection_ge: [panic, items].  With overflow checks (a
\* debug build) an overflowing shift panics when the first block's words
\* are read; without them the shift amount wraps.
BsIterIntersectionGe(self, other, ge, overflow_checks) ==
    LET min == MinBlocks(self, other)
        first_block == ge \div BitsPerBlock(self)
        num_to_zero == ge % BitsPerBlock(self)
        first_end == IF min < first_block + 1 THEN min ELSE first_block + 1
        Cut(a, b) ==
            IF num_to_zero = WordBits THEN 0
            ELSE IF num_to_zero = WordBits - 1
              THEN WordAnd(WordAnd(a, b), Shl(1, num_to_zero))
            ELSE WordAnd(WordAnd(a, b), WordNot(Shl(1, num_to_zero % WordBits) - 1))
    IN  IF overflow_checks /\ ShiftOverflows(self, ge) /\ first_block < min
          THEN [panic |-> TRUE, items |-> <<>>]
        ELSE [panic |-> FALSE, items |->
             FlatMapBlocks([b \in first_block..(first_end - 1) |->
                              [i \in 0..(self.n - 1) |->
                                  IF i = 0
                                    THEN Cut(self.storage[b][i], other.storage[b][i])
                                    ELSE WordAnd(self.storage[b][i], other.storage[b][i])]],
                           first_block, first_end, self.n)
               \o FlatMapBlocks([b \in (first_block + 1)..(min - 1) |->
                                   [i \in 0..(self.n - 1) |->
                                       WordAnd(self.storage[b][i], other.storage[b][i])]],
                                first_block + 1, min, self.n)]

\* Iterator::next on the items of an iterator
FirstOf(items) == IF items = <<>> THEN None ELSE items[1]

\* BitSetT::intersect_first_set_ge for BitSet: [panic, value]
BsIntersectFirstSetGe(self, other, ge, overflow_checks) ==
    [panic |-> BsIterIntersectionGe(self, other, ge, overflow_checks).panic,
     value |-> FirstOf(BsIterIntersectionGe(self, other, ge, overflow_checks).items)]
\* BitSetT::intersect_first_set for BitSet
BsIntersectFirstSet(self, other) == FirstOf(BsIterIntersection(self, other))

\* BitSet::count
BsCount(bs) ==
    Cardinality({<<b, wi, o>> \in (DOMAIN bs.storage) \X (0..(bs.n - 1)) \X (0..(WordBits - 1)) :
                    o \in OffsetsOf(bs.storage[b][wi])})

\* BitSet::nth: the loop over the words, k numbering the words of all
\* blocks, count being the number of 1s of the words before k
RECURSIVE BsNthLoop(_, _, _, _)
BsNthLoop(bs, k, count, nth) ==
    IF k >= Len0(bs.storage) * bs.n THEN None
    ELSE LET w == bs.storage[k \div bs.n][k % bs.n]
             ones == UsizeIterOnes(w)
         IN  IF count + CountOnes(w) <= nth
               THEN BsNthLoop(bs, k + 1, count + CountOnes(w), nth)
               ELSE (k \div bs.n) * BitsPerBlock(bs) + (k % bs.n) * WordBits
                      + ones[nth - count + 1]
BsNth(bs, nth) == BsNthLoop(bs, 0, 0, nth)

\* BitSetT::iter (the default: repeated first_set_ge)
RECURSIVE BsIterFrom(_, _)
BsIterFrom(bs, after) ==
    IF BsFirstSetGe(bs, after) = None THEN <<>>
    ELSE <<BsFirstSetGe(bs, after)>> \o BsIterFrom(bs, BsFirstSetGe(bs, after) + 1)
BsIter(bs) == BsIterFrom(bs, 0)

(***************************************************************************)
(* The tree bitset (bitset.rs's BTreeBitSet): a set of integers, with the  *)
(* default methods of the trait BitSetT.                                   *)
(***************************************************************************)
\* BTreeBitSet::set, clear, contains, count
TreeSet(set, bit) == set \cup {bit}
TreeClear(set, bit) == set \ {bit}
TreeContains(set, bit) == bit \in set
TreeCount(set) == Cardinality(set)

\* BTreeBitSet::first_set_ge and first_set
TreeFirstSetGe(set, bit) ==
    IF {x \in set : x >= bit} = {} THEN None ELSE SetMin({x \in set : x >= bit})
TreeFirstSet(set) == IF set = {} THEN None ELSE SetMin(set)

\* BTreeBitSet::first_unset_ge: the walk over the elements from bit on
RECURSIVE TreeFirstUnsetGe(_, _)
TreeFirstUnsetGe(set, expected) ==
    IF expected \in set THEN TreeFirstUnsetGe(set, expected + 1) ELSE expected
TreeFirstUnset(set) == TreeFirstUnsetGe(set, 0)

\* BTreeBitSet::nth
RECURSIVE TreeNth(_, _)
TreeNth(set, nth) ==
    IF set = {} THEN None
    ELSE IF nth = 0 THEN SetMin(set)
    ELSE TreeNth(set \ {SetMin(set)}, nth - 1)

\* BTreeBitSet::union_with, intersect_with, difference_with
TreeUnionWith(self, other) == self \cup other
TreeIntersectWith(self, other) == self \cap other
TreeDifferenceWith(self, other) == self \ other

\* BitSetT::iter
RECURSIVE TreeIterFrom(_, _)
TreeIterFrom(set, after) ==
    IF TreeFirstSetGe(set, after) = None THEN <<>>
    ELSE <<TreeFirstSetGe(set, after)>> \o TreeIterFrom(set, TreeFirstSetGe(set, after) + 1)
TreeIter(set) == TreeIterFrom(set, 0)

\* BitSetT::intersect_first_set_ge and intersect_first_set (the defaults)
RECURSIVE TreeIntersectFirstSetGe(_, _, _)
TreeIntersectFirstSetGe(self, other, ge) ==
    LET a == TreeFirstSetGe(self, ge)
        b == TreeFirstSetGe(other, ge)
    IN  IF a = None \/ b = None THEN None
        ELSE IF a = b THEN a
        ELSE IF a < b THEN TreeIntersectFirstSetGe(self, other, b)
        ELSE TreeIntersectFirstSetGe(self, other, a)
TreeIntersectFirstSet(self, other) == TreeIntersectFirstSetGe(self, other, 0)

\* BitSetT::iter_union (the default)
RECURSIVE TreeIterUnionFrom(_, _, _)
TreeIterUnionFrom(self, other, next_idx) ==
    LET a == TreeFirstSetGe(self, next_idx)
        b == TreeFirstSetGe(other, next_idx)
        bit == IF a = None THEN b ELSE IF b = None THEN a ELSE IF a < b THEN a ELSE b
    IN  IF bit = None THEN <<>>
        ELSE <<bit>> \o TreeIterUnionFrom(self, other, bit + 1)
TreeIterUnion(self, other) == TreeIterUnionFrom(self, other, 0)

\* BitSetT::iter_intersection and iter_difference (the defaults): the
\* elements of self that other contains (keep = TRUE) or does not contain
RECURSIVE TreeIterFilterFrom(_, _, _, _)
TreeIterFilterFrom(self, other, keep, next_idx) ==
    LET i == TreeFirstSetGe(self, next_idx) IN
    IF i = None THEN <<>>
    ELSE (IF TreeContains(other, i) = keep THEN <<i>> ELSE <<>>)
           \o TreeIterFilterFrom(self, other, keep, i + 1)
TreeIterIntersection(self, other) == TreeIterFilterFrom(self, other, TRUE, 0)
TreeIterDifference(self, other) == TreeIterFilterFrom(self, other, FALSE, 0)

(***************************************************************************)
(* The state machine: one solver and its caller                            *)
(***************************************************************************)
VARIABLES
    formula,        \* the clause list the solver was created from
    solver,         \* the State record
    mode,           \* "idle", "running" (inside run_inner) or "aborted" (panicked)
    op,             \* the public operation in progress or last returned
    assumptions,    \* the argument of the last run_with_assumptions
    result,         \* the SatResult the last operation returned
    calls,          \* the number of public operations called so far
    history,        \* what the operations that returned have returned, in order
    bits            \* two word-array bitsets and the tree bitsets that mirror them

solver_vars == <<formula, solver, mode, op, assumptions, result, calls, history>>
vars == <<formula, solver, mode, op, assumptions, result, calls, history, bits>>

\* bitsets a and b with N = n, created with the given numbers of blocks, and
\* their mirrors ta and tb; last names the last operation applied
BitsNew(n, blocks_a, blocks_b) ==
    [n |-> n, a |-> BsNew(n, blocks_a), b |-> BsNew(n, blocks_b),
     ta |-> {}, tb |-> {}, last |-> "new"]
NoBits == BitsNew(1, 0, 0)

NoResult == [kind |-> "None", model |-> EmptyFn]

\* a key that orders sets of literals
RECURSIVE ClauseKey(_)
ClauseKey(c) ==
    IF c = {} THEN 0
    ELSE LET l == SetMax(c) IN Pow2(l + NumVars + CallVars) + ClauseKey(c \ {l})

\* the input clauses over the variables 1..num_vars
ClauseUniverse(num_vars) ==
    {c \in SUBSET LitsUpTo(num_vars) : Cardinality(c) <= MaxClauseLen}

\* the input formulas: clause lists of bounded length, one list for each
\* multiset of clauses (its clauses in key order)
FormulasUpTo(num_vars, max_clauses) ==
    {f \in UNION {[1..n -> ClauseUniverse(num_vars)] : n \in 0..max_clauses} :
        \A i \in 1..(Len(f) - 1) : ClauseKey(f[i]) <= ClauseKey(f[i + 1])}

Configs == {"vsids", "random"}

\* the arguments of run_with_assumptions: lists of nonzero literals
AssumptionLists == UNION {[1..n -> LitsUpTo(CallVars)] : n \in 0..MaxAssumptions}

\* a solver just created from one of the given formulas
Created(formulas) ==
    /\ formula \in formulas
    /\ \E config \in Configs : solver = NewState(formula, config)
    /\ mode = "idle"
    /\ op = "create"
    /\ assumptions = <<>>
    /\ result = NoResult
    /\ calls = 0
    /\ history = <<>>
    /\ bits = NoBits

InitSolve == Created(FormulasUpTo(NumVars, MaxClauses))

Init == Created(FormulasUpTo(CallVars, MaxCallClauses))

\* the state a step or a call prefix r = [s, result] leaves: a panic aborts
\* the program, Continue enters or stays in run_inner's loop
Return(r) ==
    IF r.s.panic # "none"
      THEN /\ solver' = [solver EXCEPT !.panic = r.s.panic]
           /\ mode' = "aborted"
           /\ result' = NoResult
           /\ history' = history
      ELSE /\ solver' = r.s
           /\ mode' = IF r.result.kind = "Continue" THEN "running" ELSE "idle"
           /\ result' = IF r.result.kind = "Continue" THEN NoResult ELSE r.result
           /\ history' = IF r.result.kind = "Continue" THEN history
                          ELSE Append(history, <<op', r.result.kind>>)

\* a public operation called with args, r being what it does before run_inner
Finish(r, name, args) ==
    /\ formula' = formula
    /\ calls' = calls + 1
    /\ op' = name
    /\ assumptions' = args
    /\ Return(r)
    /\ UNCHANGED bits

\* solve(formula): a new solver, then run_inner
CallSolve ==
    /\ mode = "idle" /\ calls = 0
    /\ Finish([s |-> solver, result |-> Continue], "solve", <<>>)

\* run(): restart, then run_inner
CallRun ==
    /\ mode = "idle" /\ calls < MaxCalls
    /\ Finish([s |-> Restart(solver), result |-> Continue], "run", <<>>)

\* run_with_assumptions(a)
CallRunWithAssumptions ==
    /\ mode = "idle" /\ calls < MaxCalls
    /\ \E a \in AssumptionLists :
          Finish(RunWithAssumptionsPrefix(solver, a), "run_with_assumptions", a)

\* one iteration of run_inner's loop: step(None)
RunInnerStep ==
    /\ mode = "running"
    /\ UNCHANGED <<formula, calls, op, assumptions, bits>>
    /\ \E chosen \in ChooseLiterals(solver) : Return(Step(solver, NoLit, chosen))

\* run() on the solver that solve has returned from
CallRunAfterSolve == calls = 1 /\ CallRun

\* add_clause(c), on a solver that was just created or holds a model
CallAddClause ==
    /\ mode = "idle" /\ calls < MaxCalls
    /\ calls = 0 \/ result.kind = "Sat"
    /\ \E c \in ClauseUniverse(CallVars) :
          /\ formula' = Append(formula, c)
          /\ solver' = AddClause(solver, c)
          /\ history' = Append(history, <<"add_clause", "Unit">>)
    /\ op' = "add_clause"
    /\ calls' = calls + 1
    /\ UNCHANGED <<mode, assumptions, result, bits>>

NextSolve == CallSolve \/ CallRunAfterSolve \/ RunInnerStep

\* solve(F) on every formula of the family, then run() on the same solver
SpecSolve == InitSolve /\ [][NextSolve]_vars

Next == CallRun \/ CallRunWithAssumptions \/ RunInnerStep

\* one solver driven by a sequence of run and run_with_assumptions calls
Spec == Init /\ [][Next]_vars

\* the formulas with clauses of up to WatchClauseLen literals
WatchFormulas ==
    {f \in UNION {[1..n -> {c \in SUBSET LitsUpTo(NumVars) : Cardinality(c) <= WatchClauseLen}] :
                     n \in 0..WatchClauses} :
        \A i \in 1..(Len(f) - 1) : ClauseKey(f[i]) <= ClauseKey(f[i + 1])}

InitWatch == Created(WatchFormulas)

\* solve(F), then run(), on formulas whose clauses can move their watches
SpecWatch == InitWatch /\ [][NextSolve]_vars

\* step(literal_override), called by the user of the solver: with no
\* override or with a literal of a variable of the formula
CallStep ==
    /\ mode # "aborted" /\ calls < MaxSteps
    /\ formula' = formula
    /\ calls' = calls + 1
    /\ op' = "step"
    /\ UNCHANGED <<assumptions, bits>>
    /\ \E literal_override \in {NoLit} \cup {l \in LitsUpTo(CallVars) :
                                               Variable(l) \in solver.all_variables},
          chosen \in ChooseLiterals(solver) :
          Return(Step(solver, literal_override, chosen))

NextStep == CallStep \/ CallRunWithAssumptions

\* one solver driven by step calls, after run_with_assumptions or without
SpecStep == Init /\ [][NextStep]_vars

\* the formulas of Spec and, with one clause more, the formulas that hold a
\* unit clause and the unit clause of its negation
ConflictFormulas ==
    {f \in FormulasUpTo(CallVars, ConflictClauses) :
        \/ Len(f) <= MaxCallClauses
        \/ \E i, j \in DOMAIN f : \E l \in f[i] : f[i] = {l} /\ f[j] = {Negate(l)}}

InitConflict == Created(ConflictFormulas)

NextConflict == CallStep \/ CallRun \/ CallRunWithAssumptions \/ RunInnerStep

\* one solver driven by step, run and run_with_assumptions calls
SpecConflict == InitConflict /\ [][NextConflict]_vars

NextIncr == CallAddClause \/ CallRun \/ RunInnerStep

\* one solver driven by a sequence of add_clause and run calls
SpecIncr == Init /\ [][NextIncr]_vars

(***************************************************************************)
(* The state machine of a Luby object: created with a unit, then asked for *)
(* its terms one after the other; history holds what next has returned     *)
(***************************************************************************)
InitLuby ==
    /\ formula = <<>>
    /\ \E unit_run \in 1..MaxLubyUnit :
          solver = [NewState(<<>>, "vsids") EXCEPT !.luby = LubyNew(unit_run)]
    /\ mode = "idle"
    /\ op = "create"
    /\ assumptions = <<>>
    /\ result = NoResult
    /\ calls = 0
    /\ history = <<>>
    /\ bits = NoBits

\* luby.next()
CallLubyNext ==
    /\ solver.luby.i < MaxLubyTerms
    /\ LET r == LubyNext(solver.luby) IN
       /\ solver' = [solver EXCEPT !.luby = r.luby]
       /\ history' = Append(history, r.value)
    /\ op' = "next"
    /\ UNCHANGED <<formula, mode, assumptions, result, calls, bits>>

NextLuby == CallLubyNext

SpecLuby == InitLuby /\ [][NextLuby]_vars

(***************************************************************************)
(* The state machine of the clause database.  Conflict analysis returns a  *)
(* clause only when the failed clause has one literal at the current level *)
(* (resolve_exn refuses every resolution), so the searches of the other    *)
(* state machines learn no clause of three literals and delete none.  Here  *)
(* react is given what learn_clause_from_failure is to return: a clause of  *)
(* WatchClauseLen literals, all false under the trail, one of them at the   *)
(* current decision level.  The rest of react and backtrack, and step with  *)
(* its clause-database reduction, are the translated code.                 *)
(***************************************************************************)
\* one clause, of the positive literals of WatchClauseLen variables
StoreFormulas ==
    {f \in WatchFormulas :
        /\ Len(f) = 1 /\ Cardinality(f[1]) = WatchClauseLen
        /\ \A l \in f[1] : l > 0}

\* the restart comes with every second conflict, so that a learned clause is
\* asserted after one conflict and restarted from after the other
InitStore ==
    /\ formula \in StoreFormulas
    /\ solver = [NewState(formula, "vsids") EXCEPT !.luby = LubyNew(LubyUnit + 1)]
    /\ mode = "running"
    /\ op = "create"
    /\ assumptions = <<>>
    /\ result = NoResult
    /\ calls = 0
    /\ history = <<>>
    /\ bits = NoBits

\* the clauses that conflict analysis may return in S
Learnable(S) ==
    {[ClauseOfInput(lits) EXCEPT !.from_conflict = TRUE] :
        lits \in {ls \in SUBSET {Negate(S.trail[i].literal) : i \in DOMAIN S.trail} :
                    /\ Cardinality(ls) = WatchClauseLen
                    /\ Cardinality({l \in ls :
                          LevelOfVar(S, Variable(l)) = S.decision_level}) = 1}}

\* State::react for Action::Contradiction above level 0, with learned_clause
\* for what learn_clause_from_failure returns
ReactLearned(S, learned_clause) ==
    With(InstallLearned([S EXCEPT !.conflicts = @ + 1], learned_clause), LAMBDA S1 :
        IF S1.conflicts >= LubyValue(S1.luby)
          THEN Restart([S1 EXCEPT !.conflicts = 0]) ELSE S1)

\* step(literal_override), the override being any unassigned literal
StoreStep ==
    /\ mode = "running" /\ solver.iterations < MaxStoreSteps
    /\ op' = "step"
    /\ UNCHANGED <<formula, calls, assumptions, bits>>
    /\ \E literal_override \in
             IF solver.unassigned_variables = {} THEN {NoLit}
             ELSE {l \in LitsUpTo(NumVars) : Variable(l) \in solver.unassigned_variables} :
          Return(Step(solver, literal_override, NoLit))

\* a conflict above level 0 is handled
StoreLearn ==
    /\ mode = "running" /\ calls < MaxLearned
    /\ solver.decision_level > 0 /\ solver.ready_for_unit_prop = {}
    /\ \E learned_clause \in Learnable(solver) :
          solver' = ReactLearned(solver, learned_clause)
    /\ calls' = calls + 1
    /\ op' = "learn"
    /\ UNCHANGED <<formula, mode, assumptions, result, history, bits>>

\* run(), up to run_inner, once the search has returned
StoreRun ==
    /\ mode = "idle"
    /\ solver' = Restart(solver)
    /\ mode' = "running"
    /\ op' = "run"
    /\ result' = NoResult
    /\ UNCHANGED <<formula, calls, assumptions, history, bits>>

NextStore == StoreStep \/ StoreLearn \/ StoreRun

SpecStore == InitStore /\ [][NextStore]_vars

(***************************************************************************)
(* The state machine of the bitsets: every operation is applied to a       *)
(* word-array bitset and to the tree bitset that mirrors it                *)
(***************************************************************************)
InitBits ==
    /\ formula = <<>>
    /\ solver = NewState(<<>>, "vsids")
    /\ mode = "idle"
    /\ op = "create"
    /\ assumptions = <<>>
    /\ result = NoResult
    /\ calls = 0
    /\ history = <<>>
    /\ \E n \in 1..MaxBlockWidth, blocks_a \in 0..1, blocks_b \in 0..1 :
          bits = BitsNew(n, blocks_a, blocks_b)

\* the bitsets after an operation has left f and t in the place of a and ta
\* (of b and tb)
OnFirst(f, t, name) == [bits EXCEPT !.a = f, !.ta = t, !.last = name]
OnSecond(f, t, name) == [bits EXCEPT !.b = f, !.tb = t, !.last = name]

\* set(i)
BitSetSet ==
    /\ \E i \in 0..MaxBit :
          \/ bits' = OnFirst(BsSet(bits.a, i), TreeSet(bits.ta, i), "set")
          \/ bits' = OnSecond(BsSet(bits.b, i), TreeSet(bits.tb, i), "set")
    /\ UNCHANGED solver_vars

\* clear(i)
BitSetClear ==
    /\ \E i \in 0..MaxBit :
          \/ bits' = OnFirst(BsClear(bits.a, i), TreeClear(bits.ta, i), "clear")
          \/ bits' = OnSecond(BsClear(bits.b, i), TreeClear(bits.tb, i), "clear")
    /\ UNCHANGED solver_vars

\* union_with
BitSetUnionWith ==
    /\ \/ bits' = OnFirst(BsUnionWith(bits.a, bits.b),
                          TreeUnionWith(bits.ta, bits.tb), "union_with")
       \/ bits' = OnSecond(BsUnionWith(bits.b, bits.a),
                           TreeUnionWith(bits.tb, bits.ta), "union_with")
    /\ UNCHANGED solver_vars

\* intersect_with
BitSetIntersectWith ==
    /\ \/ bits' = OnFirst(BsIntersectWith(bits.a, bits.b),
                          TreeIntersectWith(bits.ta, bits.tb), "intersect_with")
       \/ bits' = OnSecond(BsIntersectWith(bits.b, bits.a),
                           TreeIntersectWith(bits.tb, bits.ta), "intersect_with")
    /\ UNCHANGED solver_vars

\* difference_with
BitSetDifferenceWith ==
    /\ \/ bits' = OnFirst(BsDifferenceWith(bits.a, bits.b),
                          TreeDifferenceWith(bits.ta, bits.tb), "difference_with")
       \/ bits' = OnSecond(BsDifferenceWith(bits.b, bits.a),
                           TreeDifferenceWith(bits.tb, bits.ta), "difference_with")
    /\ UNCHANGED solver_vars

NextBits ==
    \/ BitSetSet \/ BitSetClear
    \/ BitSetUnionWith \/ BitSetIntersectWith \/ BitSetDifferenceWith

\* two bitsets of either implementation under any sequence of operations
SpecBits == InitBits /\ [][NextBits]_vars

(***************************************************************************)
(* What the results mean                                                   *)
(***************************************************************************)
\* literal lit is true under the assignment a (a map from variables to BOOLEAN)
LitTrue(a, lit) == Variable(lit) \in DOMAIN a /\ a[Variable(lit)] = Value(lit)

\* every input clause of f has a literal that is true under a
Satisfies(a, f) == \A i \in DOMAIN f : \E lit \in f[i] : LitTrue(a, lit)

\* some assignment satisfies f and makes every literal of the set extra true
Satisfiable(f, extra) ==
    \E a \in [FormulaVars(f) \cup {Variable(l) : l \in extra} -> BOOLEAN] :
        Satisfies(a, f) /\ \A l \in extra : LitTrue(a, l)

Range(list) == {list[i] : i \in DOMAIN list}

Tautological(c) == \E l \in c : Negate(l) \in c
TautologyFree(f) == \A i \in DOMAIN f : ~Tautological(f[i])
HasEmptyClause(f) == \E i \in DOMAIN f : f[i] = {}

\* formula f without its i-th clause
Without(f, i) == [j \in 1..(Len(f) - 1) |-> IF j < i THEN f[j] ELSE f[j + 1]]

\* the members of a word-array bitset
Members(bs) == {i \in 0..(BsCapacity(bs) - 1) : BsContains(bs, i)}

\* the arguments the queries of a bitset are asked with
QueryArgs == 0..(MaxBit + WordBits)

\* the smallest element of a set of integers, None if it is empty
Smallest(set) == IF set = {} THEN None ELSE SetMin(set)

\* the smallest integer from i on that is not in the set
SmallestOutside(set, i) == SetMin({j \in i..(i + Cardinality(set)) : j \notin set})

\* the items of an iterator are in ascending order
Ascending(items) == \A i, j \in DOMAIN items : i < j => items[i] < items[j]

\* BTreeBitSet::capacity
TreeCapacity(set) == IF set = {} THEN 0 ELSE SetMax(set) + 1

\* the last operation has returned a verdict
Returned == mode = "idle" /\ result.kind \in {"Sat", "Unsat"}

\* the verdicts run() can end with on a fresh solver created from f
FreshVerdicts(f, config) ==
    {r.result.kind : r \in RunInner(Restart(NewState(f, config)))}

(***************************************************************************)
(* Properties                                                              *)
(***************************************************************************)
\* C1: whenever solve(F) or run() returns Sat(a), every clause of F has a
\* literal that is true under a.
C1_SatModelSatisfiesFormula ==
    (Returned /\ op \in {"solve", "run"} /\ result.kind = "Sat")
        => Satisfies(result.model, formula)

\* C1 is exercised: a run() after solve has returned a model that it
\* reached by a decision and by unit propagations
C1_Witness ==
    /\ Returned /\ op = "run" /\ result.kind = "Sat"
    /\ Len(formula) = MaxClauses
    /\ \E i \in DOMAIN solver.trail : solver.trail[i].reason.decision
    /\ \E i \in DOMAIN solver.trail : ~solver.trail[i].reason.decision

\* C2: whenever solve(F) or run() returns Unsat, no assignment of the
\* variables of F satisfies all clauses of F.
C2_UnsatMeansNoModel ==
    (Returned /\ op \in {"solve", "run"} /\ result.kind = "Unsat")
        => ~Satisfiable(formula, {})

\* C3: step returns Done(Sat(a)) only when no variable of the formula is
\* unassigned, and a maps every variable that occurs in the formula to the
\* value its trail entry gives it.
C3_SatOnlyWhenAllAssigned ==
    (Returned /\ result.kind = "Sat")
        => /\ solver.unassigned_variables = {}
           /\ DOMAIN result.model = FormulaVars(formula)
           /\ \A var \in FormulaVars(formula) :
                 /\ solver.trail_entry_idx_by_var[var] # None
                 /\ LitTrue(result.model,
                            solver.trail[solver.trail_entry_idx_by_var[var]].literal)

\* C3 is exercised: a step has returned a model of a formula over all the
\* variables, after decisions
C3_Witness ==
    /\ Returned /\ result.kind = "Sat"
    /\ Cardinality(FormulaVars(formula)) = NumVars
    /\ solver.decision_level >= 2

\* C4: if run_with_assumptions(A) returns Sat(a), then a satisfies every
\* clause of the formula and makes every literal of A true, and the
\* literals of A are on the trail when the search ends.
C4_SatUnderAssumptions ==
    (Returned /\ op = "run_with_assumptions" /\ result.kind = "Sat")
        => /\ Satisfies(result.model, formula)
           /\ \A lit \in Range(assumptions) :
                 /\ LitTrue(result.model, lit)
                 /\ \E i \in DOMAIN solver.trail : solver.trail[i].literal = lit

\* C5: if run_with_assumptions(A) returns Unsat, then no assignment
\* satisfies all clauses of the formula together with all literals of A,
\* whether or not the variables of A occur in the formula.  (Stated for the
\* formulas without a tautological clause, whose ingest is C9's subject.)
C5_UnsatUnderAssumptions ==
    (Returned /\ op = "run_with_assumptions" /\ result.kind = "Unsat"
        /\ TautologyFree(formula))
        => ~Satisfiable(formula, Range(assumptions))

C7_IncrementalAsBatch ==
    (op = "run" /\ mode # "running" /\ solver.config = "vsids"
        /\ <<"add_clause", "Unit">> \in Range(history))
        => (IF mode = "aborted" THEN "Panic" ELSE result.kind)
               \in FreshVerdicts(formula, solver.config)

\* C8: repeated step(None) on a freshly created solver eventually returns
\* Done: a stepped run of solve that has stopped has returned a verdict.
\* (Stated for the default configuration, VsidsConfig.)
C8_SteppingReturnsDone ==
    (op = "solve" /\ solver.config = "vsids" /\ mode # "running")
        => result.kind \in {"Sat", "Unsat"}

\* C9: a clause containing both v and -v is ignored at ingest: solve of a
\* formula with such a clause T has the verdict solve has without T, and
\* no trail entry has T as its reason.
C9_TautologyIgnored ==
    (Returned /\ op = "solve")
        => \A i \in DOMAIN formula :
              Tautological(formula[i])
                 => /\ result.kind \in
                         {r.result.kind :
                             r \in RunInner(NewState(Without(formula, i), solver.config))}
                    /\ \A j \in DOMAIN solver.trail :
                          solver.trail[j].reason # ClauseReason(i - 1)

TrailVarsDistinct(S) ==
    \A i, j \in DOMAIN S.trail :
        Variable(S.trail[i].literal) = Variable(S.trail[j].literal) => i = j

\* the literals that watch the clause at idx with the slot's generation
Watches(S, idx) ==
    {lit \in DOMAIN S.watched_clauses :
        /\ idx \in DOMAIN S.watched_clauses[lit]
        /\ S.watched_clauses[lit][idx] = S.clauses[idx].gen}

\* C11: in run_with_assumptions, when the variable of the next assumption
\* literal is assigned the opposite polarity, the call returns Unsat with
\* the state as it is (the literal is not pushed, no assertion fails), and
\* no variable is on the trail twice.
C11_AssumptionConflictUnsat ==
    (mode = "idle" /\ calls < MaxCalls) =>
        \A a \in AssumptionLists :
            LET st == StabilizeAssumption(Restart(solver)) IN
            (st.result.kind = "Continue") =>
                \A h \in AssumeHeads(st.s, a, 1) :
                    /\ TrailVarsDistinct(h.s)
                    /\ FalseOnTrail(h.s, a[h.pos]) =>
                          /\ AssumeLoop(h.s, a, h.pos) = [s |-> h.s, result |-> DoneUnsat]
                          /\ h.s.panic = "none"

\* C11 is exercised: a call has returned Unsat with the negation of one of
\* its assumptions on the trail, put there by unit propagation
C11_Witness ==
    /\ mode = "idle" /\ op = "run_with_assumptions" /\ result = DoneUnsat
    /\ \E i \in DOMAIN assumptions, j \in DOMAIN solver.trail :
          /\ solver.trail[j].literal = Negate(assumptions[i])
          /\ ~solver.trail[j].reason.decision
    /\ TrailVarsDistinct(solver)

C13_IntersectFirstSetGe ==
    \A k \in QueryArgs, overflow_checks \in BOOLEAN :
        /\ BsIntersectFirstSetGe(bits.a, bits.b, k, overflow_checks)
              = [panic |-> FALSE,
                 value |-> Smallest({i \in Members(bits.a) \cap Members(bits.b) : i >= k})]
        /\ BsIntersectFirstSetGe(bits.a, bits.b, k, overflow_checks).value
              = TreeIntersectFirstSetGe(bits.ta, bits.tb, k)

\* C14: after any sequence of operations applied to the word-array bitsets
\* and to the tree bitsets, the member sets are equal, every query (contains,
\* count, nth, first_set, first_set_ge, iter, iter_union, iter_intersection,
\* iter_difference, intersect_first_set, intersect_first_set_ge) returns the
\* same for both, and the iterators yield in ascending order.
C14_WordArrayMatchesTree ==
    /\ Members(bits.a) = bits.ta /\ Members(bits.b) = bits.tb
    /\ BsCount(bits.a) = TreeCount(bits.ta) /\ BsCount(bits.b) = TreeCount(bits.tb)
    /\ BsFirstSet(bits.a) = TreeFirstSet(bits.ta)
    /\ BsFirstSet(bits.b) = TreeFirstSet(bits.tb)
    /\ BsIter(bits.a) = TreeIter(bits.ta) /\ Ascending(BsIter(bits.a))
    /\ BsIter(bits.b) = TreeIter(bits.tb) /\ Ascending(BsIter(bits.b))
    /\ \A i \in QueryArgs :
          /\ BsContains(bits.a, i) = TreeContains(bits.ta, i)
          /\ BsContains(bits.b, i) = TreeContains(bits.tb, i)
          /\ BsNth(bits.a, i) = TreeNth(bits.ta, i)
          /\ BsNth(bits.b, i) = TreeNth(bits.tb, i)
          /\ BsFirstSetGe(bits.a, i) = TreeFirstSetGe(bits.ta, i)
          /\ BsFirstSetGe(bits.b, i) = TreeFirstSetGe(bits.tb, i)
          /\ \A overflow_checks \in BOOLEAN :
                BsIntersectFirstSetGe(bits.a, bits.b, i, overflow_checks)
                   = [panic |-> FALSE,
                      value |-> TreeIntersectFirstSetGe(bits.ta, bits.tb, i)]
    /\ BsIterUnion(bits.a, bits.b) = TreeIterUnion(bits.ta, bits.tb)
    /\ BsIterUnion(bits.b, bits.a) = TreeIterUnion(bits.tb, bits.ta)
    /\ BsIterIntersection(bits.a, bits.b) = TreeIterIntersection(bits.ta, bits.tb)
    /\ BsIterIntersection(bits.b, bits.a) = TreeIterIntersection(bits.tb, bits.ta)
    /\ BsIterDifference(bits.a, bits.b) = TreeIterDifference(bits.ta, bits.tb)
    /\ BsIterDifference(bits.b, bits.a) = TreeIterDifference(bits.tb, bits.ta)
    /\ Ascending(BsIterUnion(bits.a, bits.b))
    /\ Ascending(BsIterIntersection(bits.a, bits.b))
    /\ Ascending(BsIterDifference(bits.a, bits.b))
    /\ BsIntersectFirstSet(bits.a, bits.b) = TreeIntersectFirstSet(bits.ta, bits.tb)

\* C15: for every bitset and every i, first_unset_ge(i) returns the
\* smallest integer >= i that is not a member, and first_unset equals
\* first_unset_ge(0), for both implementations.
C15_FirstUnsetGe ==
    /\ BsFirstUnset(bits.a) = BsFirstUnsetGe(bits.a, 0)
    /\ TreeFirstUnset(bits.ta) = TreeFirstUnsetGe(bits.ta, 0)
    /\ \A i \in QueryArgs :
          /\ BsFirstUnsetGe(bits.a, i) = SmallestOutside(Members(bits.a), i)
          /\ TreeFirstUnsetGe(bits.ta, i) = SmallestOutside(bits.ta, i)

\* C16: for every bitset and every i: after set(i), contains(i) is true,
\* the capacity holds i, and the membership of every other element is
\* unchanged; after set(i) then clear(i), contains(i) is false; clear(i)
\* with i beyond the capacity changes nothing and contains(i) beyond the
\* capacity is false.  For both implementations.
C16_SetClearContains ==
    \A i \in QueryArgs :
        /\ BsContains(BsSet(bits.a, i), i)
        /\ BsCapacity(BsSet(bits.a, i)) > i
        /\ \A j \in QueryArgs \ {i} :
              BsContains(BsSet(bits.a, i), j) = BsContains(bits.a, j)
        /\ ~BsContains(BsClear(BsSet(bits.a, i), i), i)
        /\ (i >= BsCapacity(bits.a))
              => (BsClear(bits.a, i) = bits.a /\ ~BsContains(bits.a, i))
        /\ TreeContains(TreeSet(bits.ta, i), i)
        /\ TreeCapacity(TreeSet(bits.ta, i)) > i
        /\ \A j \in QueryArgs \ {i} :
              TreeContains(TreeSet(bits.ta, i), j) = TreeContains(bits.ta, j)
        /\ ~TreeContains(TreeClear(TreeSet(bits.ta, i), i), i)
        /\ (i >= TreeCapacity(bits.ta))
              => (TreeClear(bits.ta, i) = bits.ta /\ ~TreeContains(bits.ta, i))

\* C16 is exercised: a bitset of the widest blocks that set has grown by a
\* block holds the greatest element, and clear has just removed an element
\* of its first block
C16_Witness ==
    /\ bits.last = "clear" /\ bits.n = MaxBlockWidth
    /\ Len0(bits.a.storage) >= 2
    /\ BsContains(bits.a, MaxBit) /\ ~BsContains(bits.a, 0)
    /\ BsCount(bits.a) = 2 /\ bits.ta # bits.tb

\* C17: in every reachable state the trail holds at most one entry per
\* variable, trail_entry_idx_by_var[v] is the position of v's entry exactly
\* when v has one, and v is in unassigned_variables exactly when it has
\* none (v a variable of the formula).
C17_TrailOneEntryPerVariable ==
    /\ TrailVarsDistinct(solver)
    /\ \A v \in solver.all_variables :
          LET entries == {i \in DOMAIN solver.trail :
                             Variable(solver.trail[i].literal) = v}
          IN  /\ (solver.trail_entry_idx_by_var[v] = None) <=> (entries = {})
              /\ (solver.trail_entry_idx_by_var[v] # None)
                    => entries = {solver.trail_entry_idx_by_var[v]}
              /\ (v \in solver.unassigned_variables) <=> (entries = {})

\* C17 is exercised: after two calls that each emptied and refilled the
\* trail, a search is under way with every variable on the trail
C17_Witness ==
    /\ mode = "running" /\ calls = MaxCalls
    /\ Len0(solver.trail) = CallVars
    /\ \E i \in DOMAIN solver.trail : ~solver.trail[i].reason.decision

C20_ReasonClauseWasUnit ==
    /\ \A j \in DOMAIN solver.trail :
          ~solver.trail[j].reason.decision =>
             LET c == solver.clauses[solver.trail[j].reason.idx] IN
             /\ c.live
             /\ solver.trail[j].literal \in IterLiterals(c.clause)
             /\ \A l \in IterLiterals(c.clause) \ {solver.trail[j].literal} :
                   \E k \in DOMAIN solver.trail :
                       k < j /\ solver.trail[k].literal = Negate(l)
    /\ (mode = "running" /\ ~solver.instantly_unsat) =>
          \A H \in UnitPropagateHeads(StepEntry(solver)) :
             LET c == H.clauses[SetMin(H.ready_for_unit_prop)]
                 lits == IF c.live THEN IterLiterals(c.clause) ELSE {}
                 un == {l \in lits : ~OnTrail(H, l) /\ ~FalseOnTrail(H, l)}
                 literal == IF c.live THEN TryGetUnitLiteral(H, c.clause) ELSE NoLit
             IN  /\ ((\E l \in lits : OnTrail(H, l)) \/ Cardinality(un) >= 2)
                       => literal = NoLit
                 /\ (literal # NoLit)
                       => /\ un = {literal}
                          /\ \A l \in lits \ {literal} : FalseOnTrail(H, l)

\* C20 is exercised: a clause of three literals is the reason of a trail
\* entry in a run that has returned a model
C20_Witness ==
    /\ Returned /\ result.kind = "Sat"
    /\ \E j \in DOMAIN solver.trail :
          /\ ~solver.trail[j].reason.decision
          /\ Cardinality(solver.clauses[solver.trail[j].reason.idx].clause.variables) = 3

\* the conflicts that pushing an entry for an unassigned literal of S
\* as a decision reports: [s, conflict] of add_to_trail
PushReports(S) ==
    {AddToTrail(S, [literal |-> lit, decision_level |-> S.decision_level,
                    reason |-> DecisionReason]) :
        lit \in {l \in LitsUpTo(NumVars) : Variable(l) \in S.unassigned_variables}}

NextPropagation(S) == UnitPropagate(StepEntry(S))

LearnedClauses(S) ==
    {idx \in DOMAIN S.clauses :
        S.clauses[idx].live /\ S.clauses[idx].clause.from_conflict}

\* every assignment of the variables that satisfies f makes a literal of
\* the set lits true
Entails(f, lits) ==
    \A a \in [FormulaVars(f) \cup {Variable(l) : l \in lits} -> BOOLEAN] :
        Satisfies(a, f) => \E l \in lits : LitTrue(a, l)

BackjumpLevel(S, clause) ==
    LET levels == {LevelOfVar(S, var) : var \in clause.variables} \ {None}
        lower == levels \ {SetMax(levels)}
    IN  IF levels = {} \/ lower = {} THEN 0 ELSE SetMax(lower)

\* backtrack, called in S for the clause failed_idx, has removed exactly the
\* trail entries above the backjump level of the clause it learned
BackjumpedFrom(S, failed_idx) ==
    LET L == LearnClauseFromFailure(S, failed_idx)
        B == Backtrack(S, failed_idx)
        beta == BackjumpLevel(S, L.learned)
        kept == {i \in DOMAIN S.trail : S.trail[i].decision_level <= beta}
    IN  /\ B.panic = "none"
        /\ DOMAIN B.trail = kept
        /\ \A i \in kept : B.trail[i] = S.trail[i]
        /\ B.decision_level = beta

AssertsLearned(S, learned) ==
    LET lits == IterLiterals(S.clauses[learned].clause)
        un == {l \in lits : Variable(l) \in S.unassigned_variables}
        up == UnitPropagateLoop(S, 0)
    IN  /\ S.panic = "none"
        /\ S.ready_for_unit_prop = {learned}
        /\ Cardinality(un) = 1
        /\ \A l \in lits \ un : FalseOnTrail(S, l)
        /\ \E i \in DOMAIN up.s.trail :
              /\ up.s.trail[i].literal \in un
              /\ up.s.trail[i].reason = ClauseReason(learned)

\* the index at which push_clause stores the next clause
NextClauseIdx(S) ==
    IF S.clauses_first_tombstone = None THEN Len0(S.clauses)
    ELSE S.clauses_first_tombstone

C26_NoDecisionWalkingBack ==
    /\ solver.panic # "found decision walking back from conflict"
    /\ (mode = "running" /\ ~solver.instantly_unsat) =>
          LET up == NextPropagation(solver) IN
          (up.s.panic = "none" /\ up.conflict # None) =>
              LearnClauseFromFailure(up.s, up.conflict).s.panic
                  # "found decision walking back from conflict"

\* C26 is exercised: the analysis of a conflict two decisions deep has
\* walked back to the entry of a propagated literal and has stopped there,
\* at resolve_exn
C26_Witness ==
    /\ mode = "aborted" /\ solver.panic = "Cannot resolve clauses"
    /\ solver.decision_level = 2
    /\ Cardinality({i \in DOMAIN solver.trail : solver.trail[i].reason.decision}) = 2

\* the number of Decision entries of the trail of S at or before index i
DecisionsUpTo(S, i) ==
    Cardinality({j \in DOMAIN S.trail : j <= i /\ S.trail[j].reason.decision})

\* C27: the decision level is the number of Decision entries on the trail,
\* the level recorded in a trail entry is the number of Decision entries at
\* or before it, so the levels never decrease along the trail and a
\* Decision entry has a level one above the entry before it.
C27_LevelCountsDecisions ==
    (solver.panic = "none") =>
        /\ solver.decision_level = DecisionsUpTo(solver, Len0(solver.trail))
        /\ \A i \in DOMAIN solver.trail :
              solver.trail[i].decision_level = DecisionsUpTo(solver, i)

\* C28: when unit propagation finds a conflict while the trail holds no
\* Decision entry, that step returns Done(Unsat) and learns no clause: the
\* clause table after the step is the one before it.
C28_ConflictWithoutDecisionIsUnsat ==
    (mode = "running" /\ ~solver.instantly_unsat) =>
        LET up == NextPropagation(solver) IN
        (/\ up.s.panic = "none" /\ up.conflict # None
         /\ DecisionsUpTo(up.s, Len0(up.s.trail)) = 0) =>
            LET r == ReactContradiction(up.s, up.conflict) IN
            /\ r.result = DoneUnsat
            /\ LearnedClauses(r.s) = LearnedClauses(solver)
            /\ DOMAIN r.s.clauses = DOMAIN solver.clauses

\* the postcondition of restart, R being the state that restart leaves when
\* it is called in S
Restarted(S, R) ==
    /\ Len0(R.trail) = 0
    /\ R.unassigned_variables = S.all_variables
    /\ \A var \in S.all_variables :
          /\ R.trail_entry_idx_by_var[var] = None
          /\ ScorePairs(R, LiteralNew(var, TRUE)) \subseteq R.literal_by_score
    /\ \A idx \in DOMAIN R.clauses :
          R.clauses[idx].live => R.clauses[idx].clause.num_units = 0
    /\ R.ready_for_unit_prop =
          {idx \in DOMAIN R.clauses :
              R.clauses[idx].live /\ Cardinality(R.clauses[idx].clause.variables) = 1}
    /\ DOMAIN R.clauses = DOMAIN S.clauses
    /\ \A idx \in DOMAIN S.clauses :
          /\ R.clauses[idx].live = S.clauses[idx].live
          /\ R.clauses[idx].gen = S.clauses[idx].gen
          /\ IterLiterals(R.clauses[idx].clause) = IterLiterals(S.clauses[idx].clause)

\* C29: restart, called in any reachable state, leaves the trail empty,
\* every variable of the formula unassigned with both its literals in
\* literal_by_score, num_units of every live clause 0 and the ready set
\* equal to the set of the live clauses that have exactly one literal, and
\* it deletes no clause.
C29_RestartPostcondition ==
    (solver.panic = "none") => Restarted(solver, Restart(solver))

\* C29 is exercised: restart is called on a trail that holds a decision and
\* a propagated literal, with a unit clause and a longer clause in the table
C29_Witness ==
    /\ solver.panic = "none"
    /\ \E i, j \in DOMAIN solver.trail :
          solver.trail[i].reason.decision /\ ~solver.trail[j].reason.decision
    /\ \E idx, idy \in DOMAIN solver.clauses :
          /\ Cardinality(solver.clauses[idx].clause.variables) = 1
          /\ Cardinality(solver.clauses[idy].clause.variables) = 2
          /\ solver.clauses[idy].clause.num_units = 1

\* C30: each time the number of conflicts since the last restart reaches
\* the current Luby value, the solver restarts, resets the conflict count
\* and advances the Luby sequence: when the step that handles a conflict
\* above level 0 brings the count to the Luby value, it leaves an empty
\* trail, a count of 0 and the next index of the sequence, whose value is
\* the next threshold.
C30_RestartAdvancesLuby ==
    (mode = "running" /\ ~solver.instantly_unsat) =>
        LET up == NextPropagation(solver) IN
        (/\ up.s.panic = "none" /\ up.conflict # None /\ up.s.decision_level > 0
         /\ Backtrack(up.s, up.conflict).panic = "none"
         /\ up.s.conflicts + 1 >= LubyValue(up.s.luby)) =>
            LET r == ReactContradiction(up.s, up.conflict) IN
            /\ Len0(r.s.trail) = 0
            /\ r.s.conflicts = 0
            /\ r.s.luby.i = up.s.luby.i + 1
            /\ LubyValue(r.s.luby) = LubyUnit * LubyTerm(up.s.luby.i + 1)

\* the first terms of the Luby sequence, as the specification lists them
LubySequence == <<1, 1, 2, 1, 1, 2, 4, 1, 1, 2, 1, 1, 2, 4, 8>>

\* the recurrence of the Luby sequence at n, for the k with
\* 2^(k-1) <= n <= 2^k - 1
LubyRecurrence(n) ==
    \E k \in 1..n :
        /\ Pow2(k - 1) <= n /\ n <= Pow2(k) - 1
        /\ LubyTerm(n) = IF n = Pow2(k) - 1 THEN Pow2(k - 1)
                         ELSE LubyTerm(n - Pow2(k - 1) + 1)

\* C31: luby_term(1), luby_term(2), ... is the Luby sequence
\* 1,1,2,1,1,2,4,1,1,2,1,1,2,4,8: 2^(k-1) at n = 2^k - 1 and
\* luby_term(n - 2^(k-1) + 1) for 2^(k-1) <= n < 2^k - 1; the value of
\* Luby::new(u) is u times the first term, and the j-th call of next
\* returns u times the term after the j-th.
C31_LubySequence ==
    (op \in {"create", "next"} /\ solver.luby.i <= Len(LubySequence)) =>
        /\ LubyTerm(solver.luby.i) = LubySequence[solver.luby.i]
        /\ LubyRecurrence(solver.luby.i)
        /\ LubyValue(LubyNew(solver.luby.u)) = solver.luby.u * LubySequence[1]
        /\ LubyValue(solver.luby) = solver.luby.u * LubySequence[solver.luby.i]
        /\ (op = "next") =>
              /\ Len(history) = solver.luby.i - 1
              /\ \A j \in DOMAIN history :
                    history[j] = solver.luby.u * LubySequence[j + 1]

\* C31 is exercised: next has returned fourteen values, the last one eight
\* times a unit greater than 1
C31_Witness ==
    /\ op = "next" /\ solver.luby.u > 1
    /\ Len(history) = 14 /\ history[14] = 8 * solver.luby.u

\* the slot of S that the reason of the trail entry at index j refers to
ReasonSlot(S, j) == S.clauses[S.trail[j].reason.idx]

Eligible(S) ==
    {idx \in DOMAIN S.clauses :
        /\ S.clauses[idx].live
        /\ idx >= S.num_initial_clauses
        /\ S.clauses[idx].clause.from_conflict
        /\ S.clauses[idx].clause.num_units = 0
        /\ Cardinality(IterLiterals(S.clauses[idx].clause)) >= 3
        /\ Cardinality({S.trail[j].decision_level : j \in
              {k \in DOMAIN S.trail :
                  Variable(S.trail[k].literal) \in S.clauses[idx].clause.variables}}) >= 3}

\* S1 is S with the floor(n/2) lowest-activity clauses of eligible deleted
\* and every other slot as it was
ReducedBy(S, S1, eligible) ==
    LET dropped == {idx \in eligible : ~S1.clauses[idx].live}
    IN  /\ DOMAIN S1.clauses = DOMAIN S.clauses
        /\ Cardinality(dropped) = Cardinality(eligible) \div 2
        /\ \A d \in dropped : \A e \in eligible \ dropped :
              S.clauses[d].clause.score <= S.clauses[e].clause.score
        /\ \A idx \in DOMAIN S.clauses \ dropped : S1.clauses[idx] = S.clauses[idx]

\* simplify_clauses, applied to S, deletes the lower half of the eligible
\* clauses and nothing else
ReducedFrom(S) == ReducedBy(S, SimplifyClauses(S), Eligible(S))

\* the live learned clauses of S
LiveLearned(S) ==
    {idx \in DOMAIN S.clauses : S.clauses[idx].live /\ S.clauses[idx].clause.from_conflict}

\* C33: a clause-database reduction deletes exactly the floor(n/2)
\* lowest-activity clauses among the n eligible ones (learned, num_units = 0,
\* at least three literals, literals assigned at three or more decision
\* levels), and every other clause stays live with its index and contents
\* unchanged.  simplify_clauses is applied to every reachable state, as it
\* is and after add_clause_activity has raised the score of one learned
\* clause.
C33_ReductionDropsLowerHalf ==
    solver.panic = "none" =>
        /\ ReducedFrom(solver)
        /\ \A idx \in LiveLearned(solver) : ReducedFrom(AddClauseActivity(solver, idx))

\* C33 is exercised: a reduction is due at the next step and two clauses
\* or more are eligible, beside the original clause
C33_Witness ==
    /\ solver.panic = "none" /\ mode = "running"
    /\ (solver.iterations + 1) % solver.simplify_clauses_every = 0
    /\ Cardinality(Eligible(solver)) >= 2
    /\ solver.num_initial_clauses = 1 /\ solver.clauses[0].live

\* the slots a and b hold the same clause, or are both tombstones
SameClause(a, b) ==
    /\ a.live = b.live
    /\ a.live => IterLiterals(a.clause) = IterLiterals(b.clause)

\* the watcher entries (literal, index) of S whose generation is not the
\* generation of the slot
StaleWatchers(S) ==
    {w \in (DOMAIN S.watched_clauses) \X (DOMAIN S.clauses) :
        /\ w[2] \in DOMAIN S.watched_clauses[w[1]]
        /\ S.watched_clauses[w[1]][w[2]] # S.clauses[w[2]].gen}

\* update_watched_clauses for set_literal inspects no clause through a stale
\* watcher: it does not unwrap a tombstone, and where it has gone through
\* the whole index of the negated literal no stale watcher is left in it
DropsStaleWatchers(S, set_literal) ==
    With(UpdateWatchedClauses(S, set_literal), LAMBDA r :
        /\ r.s.panic = "none"
        /\ r.conflict = None =>
              \A w \in StaleWatchers(r.s) : w[1] # Negate(set_literal))

\* C34: the generation of a slot strictly increases on every delete_clause
\* and on every push_clause that reuses the slot, so a slot whose generation
\* a step has kept holds the clause it held; a watcher entry with the slot's
\* generation is on a literal of the live clause, and a watcher whose
\* generation differs is removed from the watch index before the clause of
\* the slot is inspected.
C34_GenerationsDetectStaleness ==
    [][solver'.panic = "none" =>
         /\ \A idx \in DOMAIN solver.clauses :
               /\ idx \in DOMAIN solver'.clauses
               /\ solver'.clauses[idx].gen >= solver.clauses[idx].gen
               /\ solver'.clauses[idx].gen = solver.clauses[idx].gen
                     => SameClause(solver.clauses[idx], solver'.clauses[idx])
         /\ \A idx \in DOMAIN solver'.clauses :
               solver'.clauses[idx].live =>
                  DeleteClause(solver', idx).clauses[idx].gen > solver'.clauses[idx].gen
         /\ solver'.clauses_first_tombstone # None =>
               With(PushClause(solver', ClauseOfInput({1})), LAMBDA r :
                  r.s.clauses[r.idx].gen > solver'.clauses[r.idx].gen)
         /\ \A lit \in DOMAIN solver'.watched_clauses :
               \A idx \in DOMAIN solver'.watched_clauses[lit] :
                  /\ solver'.watched_clauses[lit][idx] <= solver'.clauses[idx].gen
                  /\ solver'.watched_clauses[lit][idx] = solver'.clauses[idx].gen
                        => /\ solver'.clauses[idx].live
                           /\ lit \in IterLiterals(solver'.clauses[idx].clause)
         /\ \A w \in StaleWatchers(solver') :
               Variable(w[1]) \in solver'.unassigned_variables
                  => DropsStaleWatchers(solver', Negate(w[1]))]_vars

\* C34 is exercised: a slot has been deleted and reused, a watcher recorded
\* for the deleted clause is still in the watch index of a literal, and the
\* slot holds a clause again
C34_Witness ==
    /\ solver.panic = "none" /\ op = "step"
    /\ \E w \in StaleWatchers(solver) :
          solver.clauses[w[2]].live /\ solver.clauses[w[2]].gen >= 2

\* the free list of S from the slot head on: the slot indices in the order
\* of the links; a walk longer than fuel slots ends in None, the mark of a
\* cycle, and so does a link into a live slot
RECURSIVE FreeListFrom(_, _, _)
FreeListFrom(S, head, fuel) ==
    IF head = None THEN <<>>
    ELSE IF fuel = 0 \/ head \notin DOMAIN S.clauses THEN <<None>>
    ELSE IF S.clauses[head].live THEN <<None>>
    ELSE <<head>> \o FreeListFrom(S, S.clauses[head].next, fuel - 1)

\* the sequence list, last element first
RECURSIVE Reversed(_)
Reversed(list) ==
    IF list = <<>> THEN <<>> ELSE Append(Reversed(Tail(list)), Head(list))

\* the free list of S holds exactly the tombstoned slots, each once, the
\* most recently deleted first
FreeListExact(S) ==
    With(FreeListFrom(S, S.clauses_first_tombstone, Len0(S.clauses)), LAMBDA list :
        /\ \A i \in DOMAIN list : list[i] # None
        /\ \A i, j \in DOMAIN list : i # j => list[i] # list[j]
        /\ {list[i] : i \in DOMAIN list}
              = {idx \in DOMAIN S.clauses : ~S.clauses[idx].live}
        /\ list = Reversed(S.tombstoned))

\* push_clause on S reuses the most recently deleted slot if there is one and
\* appends otherwise, leaves every other slot as it was and the free list
\* exact
PushKeeps(S, clause) ==
    With(PushClause(S, clause), LAMBDA r :
        /\ r.idx = IF S.tombstoned = <<>> THEN Len0(S.clauses)
                   ELSE S.tombstoned[Len(S.tombstoned)]
        /\ r.s.clauses[r.idx].live /\ r.s.clauses[r.idx].clause = clause
        /\ \A idx \in DOMAIN S.clauses \ {r.idx} : r.s.clauses[idx] = S.clauses[idx]
        /\ DOMAIN r.s.clauses = DOMAIN S.clauses \cup {r.idx}
        /\ FreeListExact(r.s))

\* delete_clause for the slots of list, one after the other, leaves every
\* other slot of S as it was and the free list exact, and so does a
\* push_clause that follows
DeleteKeeps(S, list) ==
    With(DeleteClauses(S, list), LAMBDA S1 :
        /\ \A i \in DOMAIN list : ~S1.clauses[list[i]].live
        /\ \A idx \in DOMAIN S.clauses \ {list[i] : i \in DOMAIN list} :
              S1.clauses[idx] = S.clauses[idx]
        /\ FreeListExact(S1)
        /\ PushKeeps(S1, ClauseOfInput({1, -2})))

\* the lists of one or two live clauses of S
DeleteLists(S) ==
    {<<a>> : a \in {idx \in DOMAIN S.clauses : S.clauses[idx].live}}
      \cup {<<w[1], w[2]>> : w \in {v \in {idx \in DOMAIN S.clauses : S.clauses[idx].live}
                                          \X {idx \in DOMAIN S.clauses : S.clauses[idx].live} :
                                       v[1] # v[2]}}

\* C35: the tombstone free list (head clauses_first_tombstone, links in the
\* tombstoned slots) holds exactly the tombstoned slots, each once and
\* without a cycle; push_clause reuses the most recently deleted slot if
\* there is one and appends otherwise, and neither push_clause nor
\* delete_clause changes the index or the contents of another live clause.
\* Checked in every reachable state, and after delete_clause of any one or
\* two of its live clauses.
C35_FreeListExact ==
    solver.panic = "none" =>
        /\ FreeListExact(solver)
        /\ PushKeeps(solver, ClauseOfInput({1, -2}))
        /\ \A list \in DeleteLists(solver) : DeleteKeeps(solver, list)

\* C35 is exercised: a reduction has deleted a clause, its slot heads the
\* free list, and a learned clause and the original clause are live beside it
C35_Witness ==
    /\ solver.panic = "none"
    /\ solver.clauses_first_tombstone # None
    /\ solver.tombstoned # <<>>
    /\ LiveLearned(solver) # {} /\ solver.clauses[0].live

\* C36: every live clause with two or more literals has exactly two watcher
\* entries carrying its current generation, on two distinct literals of that
\* clause, and a live clause with one literal has exactly one, after any
\* sequence of installs, watch moves, backjumps, restarts, deletions and
\* slot reuse.
C36_TwoWatchersPerClause ==
    solver.panic = "none" =>
        \A idx \in DOMAIN solver.clauses :
            solver.clauses[idx].live =>
               /\ Watches(solver, idx) \subseteq IterLiterals(solver.clauses[idx].clause)
               /\ Cardinality(Watches(solver, idx))
                     = IF Cardinality(IterLiterals(solver.clauses[idx].clause)) >= 2
                         THEN 2
                         ELSE Cardinality(IterLiterals(solver.clauses[idx].clause))

\* C36 is exercised: a slot has been deleted and reused, entries of the
\* deleted clause are left in the watch index, and the clause that now
\* holds the slot has become the reason of a trail entry
C36_Witness ==
    /\ solver.panic = "none"
    /\ \E w \in StaleWatchers(solver) :
          /\ solver.clauses[w[2]].live /\ solver.clauses[w[2]].gen >= 2
          /\ \E j \in DOMAIN solver.trail :
                ~solver.trail[j].reason.decision /\ solver.trail[j].reason.idx = w[2]

\* the divisors with which State::rescale_vsids is tried (the code's 1e20 is
\* out of the reach of the bounded runs)
RescaleDivisors == {2, 19}

\* literal_by_score of S holds the pair (score, literal) of exactly the
\* literals of the formula's variables that have no trail entry, each with
\* the score that score_for_literal has for it now
ScoreIndexExact(S) ==
    S.literal_by_score =
        {<<S.score_for_literal[lit], lit>> :
            lit \in {l \in DOMAIN S.score_for_literal :
                        /\ Variable(l) \in S.all_variables
                        /\ \A j \in DOMAIN S.trail : Variable(S.trail[j].literal) # Variable(l)}}

\* C37: in every reachable state, for every variable v of the formula and
\* each polarity p, the pair (score[v][p], literal(v, p)) is in
\* literal_by_score exactly when v is unassigned, and the set holds no pair
\* with an outdated score; trail push and undo keep this (the states the
\* steps reach), and so do an activity bump of any literal, a rescale, and
\* a rescale after a bump.
C37_ScoreIndexExact ==
    solver.panic = "none" =>
        /\ ScoreIndexExact(solver)
        /\ \A rescale \in RescaleDivisors : ScoreIndexExact(RescaleVsids(solver, rescale))
        /\ \A lit \in DOMAIN solver.score_for_literal :
              With(AddVsidsActivity(solver, lit), LAMBDA S1 :
                  /\ ScoreIndexExact(S1)
                  /\ \A rescale \in RescaleDivisors : ScoreIndexExact(RescaleVsids(S1, rescale)))

\* C37 is exercised: the literals of two learned clauses have had their
\* activity raised, the second time by the decayed increment, one variable
\* is assigned and another, whose two literals differ in score, is not
C37_Witness ==
    /\ solver.panic = "none" /\ DOMAIN solver.trail # {}
    /\ \E var \in solver.unassigned_variables :
          /\ solver.score_for_literal[LiteralNew(var, TRUE)]
                # solver.score_for_literal[LiteralNew(var, FALSE)]
          /\ ScorePairs(solver, LiteralNew(var, TRUE)) \subseteq solver.literal_by_score
    /\ \E lit \in DOMAIN solver.score_for_literal :
          solver.score_for_literal[lit] % ScoreOne # 0

\* the trail entries of S whose reason is the clause at idx
JustifiedBy(S, idx) ==
    {j \in DOMAIN S.trail : ~S.trail[j].reason.decision /\ S.trail[j].reason.idx = idx}

\* num_units of every live clause of S counts the trail entries whose reason
\* is the clause
NumUnitsExact(S) ==
    \A idx \in DOMAIN S.clauses :
        S.clauses[idx].live =>
           /\ S.clauses[idx].clause.num_units >= 0
           /\ S.clauses[idx].clause.num_units = Cardinality(JustifiedBy(S, idx))

\* C38: in every reachable state, for every live clause c, num_units of c
\* equals the number of trail entries whose reason is ClauseIdx(c), and is
\* never below 0; this also holds after a backjump to any level and after a
\* restart.
C38_NumUnitsCountsReasons ==
    solver.panic = "none" =>
        /\ NumUnitsExact(solver)
        /\ NumUnitsExact(Restart(solver))
        /\ \A level \in 0..solver.decision_level :
              NumUnitsExact(RemoveFromTrailHelper(solver, level))

\* C38 is exercised: a learned clause is the reason of one trail entry,
\* above two decisions, after the restart of run has undone the trail of an
\* earlier search
C38_Witness ==
    /\ solver.panic = "none" /\ op = "step" /\ mode = "running"
    /\ \E idx \in LiveLearned(solver) :
          /\ Cardinality(JustifiedBy(solver, idx)) = 1
          /\ solver.clauses[idx].clause.num_units = 1
    /\ Cardinality({j \in DOMAIN solver.trail : solver.trail[j].reason.decision}) = 2
    /\ history # <<>>

\* the number of Reason::Decision entries on the trail of S
NumDecisions(S) ==
    Cardinality({j \in DOMAIN S.trail : S.trail[j].reason.decision})

\* what unit_propagate, called by step in S, reports, against the ready set
\* it was called with: Contradiction exactly when a conflict is returned, the
\* last trail entry then being the unit whose enqueuing raised it
ReportsConflictAtOnce(S, up) ==
    /\ (up.result = "Contradiction") = (up.conflict # None)
    /\ up.result = "Contradiction" =>
          /\ Len0(up.s.trail) > Len0(S.trail)
          /\ ~Last0(up.s.trail).reason.decision
    /\ up.result # "Contradiction" => up.s.ready_for_unit_prop = {}

\* step, called in the state solver, adds a decision only when its
\* unit_propagate has reported up.result = NothingToPropagate
DecidesOnlyAfterNothing(S, up) ==
    \A chosen \in ChooseLiterals(up.s) :
        With(Step(solver, NoLit, chosen), LAMBDA r :
            (r.s.panic = "none" /\ NumDecisions(r.s) > NumDecisions(S))
               => up.result = "NothingToPropagate")

\* C39: unit_propagate returns FinishedUnitPropagation if the ready set was
\* non-empty on entry and was drained without conflict, NothingToPropagate
\* if the ready set was empty on entry, and Contradiction(c) as soon as
\* enqueuing a unit raises a conflict; step makes a decision only in the
\* NothingToPropagate case.  Stated of the unit_propagate of the next step,
\* in every state in which step can be called.
C39_PropagationReport ==
    (mode # "aborted" /\ ~solver.instantly_unsat) =>
        With(StepEntry(solver), LAMBDA S :
        With(UnitPropagate(S), LAMBDA up :
            up.s.panic = "none" =>
               /\ S.ready_for_unit_prop = {} => up.result = "NothingToPropagate"
               /\ (S.ready_for_unit_prop # {} /\ up.conflict = None)
                     => up.result = "FinishedUnitPropagation"
               /\ ReportsConflictAtOnce(S, up)
               /\ DecidesOnlyAfterNothing(S, up)))

\* the clauses of the ready set of S that are live and unit in S
ReadyUnits(S) ==
    {clause_idx \in S.ready_for_unit_prop :
        /\ S.clauses[clause_idx].live
        /\ TryGetUnitLiteral(S, S.clauses[clause_idx].clause) # NoLit}

\* C39, amended: unit_propagate returns NothingToPropagate exactly when no
\* clause of the ready set is unit on entry (the set is empty, or holds only
\* clauses that are no longer unit), FinishedUnitPropagation when it has
\* enqueued at least one unit and drained the set without conflict, and
\* Contradiction(c) as soon as enqueuing a unit raises a conflict; step makes
\* a decision only in the NothingToPropagate case.
C39_ReportCountsPropagations ==
    (mode # "aborted" /\ ~solver.instantly_unsat) =>
        With(StepEntry(solver), LAMBDA S :
        With(UnitPropagate(S), LAMBDA up :
            up.s.panic = "none" =>
               /\ (up.result = "NothingToPropagate") = (ReadyUnits(S) = {})
               /\ up.result = "NothingToPropagate" => up.s.trail = S.trail
               /\ up.result = "FinishedUnitPropagation" =>
                     /\ Len0(up.s.trail) > Len0(S.trail)
                     /\ up.conflict = None
               /\ ReportsConflictAtOnce(S, up)
               /\ DecidesOnlyAfterNothing(S, up)))

\* C39 is exercised: step is called with a ready set that holds a clause no
\* longer unit and nothing else, left there by the propagation that ended
\* the step before with a conflict at level 0
C39_Witness ==
    /\ mode = "idle" /\ op = "step" /\ result.kind = "Unsat"
    /\ solver.panic = "none" /\ ~solver.instantly_unsat
    /\ solver.ready_for_unit_prop # {} /\ ReadyUnits(solver) = {}
    /\ UnitPropagate(StepEntry(solver)).result = "NothingToPropagate"

=============================================================================
